---- MODULE Spec2Model ----
(***************************************************************************)
(* JerichoOS, AArch64 core: the task scheduler (arch/aarch64/scheduler.rs), *)
(* the task context (arch/aarch64/task.rs) and the boot-time dispatch of    *)
(* task 0 (main_aarch64.rs), as a state machine.                            *)
(*                                                                          *)
(* Addresses and register values are integers.  The CPU is a single core:   *)
(* cpu holds the architectural registers of whatever is executing, either   *)
(* kernel_main (cpu.pc = KMAIN_PC or KIDLE_PC) or a task.                   *)
(***************************************************************************)
EXTENDS Integers, Sequences, FiniteSets, TLC

(***************************************************************************)
(* Program constants.                                                       *)
(***************************************************************************)
MAX_TASKS == 8
TASK_STACK_SIZE == 16384
\* size of TaskContext and of ExceptionFrame: 34 fields of 8 bytes
FRAME_SIZE == 272
\* SPSR_EL1 value written by TaskContext::init: EL1h, D/A/I/F unmasked
PSTATE_EL1H == 5
\* the I bit of PSTATE / DAIF (bit 7), cleared by "msr daifclr, #2"
DAIF_I == 128
\* PSTATE of kernel_main before the IRQ unmask: EL1h with D, A, I, F masked
BOOT_PSTATE == 965

(***************************************************************************)
(* Layout of the model's address space.  The numbers are symbolic: only     *)
(* their being distinct and the arithmetic on them matters.                 *)
(***************************************************************************)
\* address of SCHEDULER.tasks[0]
TASKS_BASE == 1048576
\* size of one Task: context, stack, state (padded), id
TASK_SIZE == 16672
\* a program counter inside kernel_main, between the IRQ unmask and the eret
KMAIN_PC == 263
\* the wfi loop at the end of kernel_main
KIDLE_PC == 507
\* the stack boot code hands to kernel_main
BOOT_SP == 524288
\* address of the first task function; the k-th one is at TASK_FN_BASE + 16 * k
TASK_FN_BASE == 4096
\* the label "1:" inside switch_context
SWITCH_RET_PC == 180
\* ipc.rs
MAX_MESSAGE_SIZE == 4096
\* IpcEndpoint::new: max_queue_size
MAX_QUEUE_SIZE == 16

(***************************************************************************)
(* Bounds of the model.                                                     *)
(***************************************************************************)
\* scheduler_switch_task is not taken once the switch counter reaches this
MaxSwitchCount == 4
\* number of steps in which a running task changes its own registers
MaxRuns == 2
\* number of tasks spawned in the specification that lets tasks run
MaxCtxTasks == 3
\* number of switch_to_next and block_current calls in a behaviour
MaxYields == 2
\* number of reset_switch_counter calls in a behaviour
MaxResets == 1
\* get_switch_count calls
MaxReads == 2
\* send_message calls
MaxSends == 2
\* try_receive_message and receive_message_blocking calls
MaxRecvs == 2
\* endpoints created
MaxEndpoints == 2
\* send_message calls when an endpoint is filled
MaxFill == 18
\* length of a guest's linear memory
MemLen == 65536
\* import calls made by guests
MaxHostCalls == 2
\* capabilities granted to one instance
MaxGrants == 2
\* import calls made by guests when publishing and subscribing
MaxPubSubCalls == 4
\* deliver_pending_messages calls
MaxDeliveries == 2
\* publish/deliver rounds
MaxRounds == 4

VARIABLES
    tasks,          \* SCHEDULER.tasks: [0..MAX_TASKS-1 -> Task]
    num_tasks,      \* SCHEDULER.num_tasks
    current_task,   \* SCHEDULER.current_task
    switch_counter, \* CONTEXT_SWITCH_COUNTER
    cpu,            \* the architectural registers of the executing code
    next_frame,     \* the exception frame last built by scheduler_switch_task
    kpc,            \* kernel_main: "boot" (IRQs masked) or "armed"
    kmain,          \* kernel_main: the initialisation step it is at, and those it has done
    ret,            \* the last operation and what it returned
    hist,           \* history: what happened to each task, for the properties
    registry,       \* IPC_REGISTRY: the Option<IpcRegistry> behind the mutex
    rx,             \* each task's position inside receive_message_blocking
    blocked_tasks,  \* the tasks the scheduler holds Blocked after block_current
    ipc,            \* history: the messages sent to and received from each endpoint
    IPC_MESSAGE_QUEUE, \* wasm_runtime.rs: the global delivery queue
    MQTT_SUBSCRIBERS,  \* wasm_runtime.rs: the subscriber registry
    capabilities,   \* WasmContext::capabilities of each loaded instance
    serial,         \* what the host imports have written to the serial port
    wasm,           \* history: host calls made, and whether the kernel has panicked
    delivery        \* the running deliver_pending_messages call, and its history

sched_vars == <<tasks, num_tasks, current_task, switch_counter, cpu, next_frame, kpc, kmain>>
ipc_vars == <<registry, rx, blocked_tasks, ipc>>
wasm_vars == <<IPC_MESSAGE_QUEUE, MQTT_SUBSCRIBERS, capabilities, serial, wasm, delivery>>
vars == <<sched_vars, ret, hist, ipc_vars, wasm_vars>>

Slots == 0 .. (MAX_TASKS - 1)
Regs == 0 .. 30
TaskStates == {"Ready", "Running", "Blocked"}

ZeroRegs == [r \in Regs |-> 0]

\* TaskContext::new
TaskContext_new == [x |-> ZeroRegs, sp |-> 0, pc |-> 0, pstate |-> 0]

\* TaskContext::init
TaskContext_init(entry_point, stack_top) ==
    [TaskContext_new EXCEPT !.pc = entry_point, !.sp = stack_top, !.pstate = PSTATE_EL1H]

\* Task::new
Task_new == [context |-> TaskContext_new, state |-> "Blocked", id |-> 0]

\* a stack top one slot too high
StackTopOfNext(i) == TASKS_BASE + (i + 1) * TASK_SIZE + FRAME_SIZE + TASK_STACK_SIZE

\* address of tasks[i].stack, and one past its end
StackBase(i) == TASKS_BASE + i * TASK_SIZE + FRAME_SIZE
StackTop(i) == StackBase(i) + TASK_STACK_SIZE

\* address of the k-th task function
EntryOf(k) == TASK_FN_BASE + 16 * k

(***************************************************************************)
(* The CPU and the exception boundary.                                      *)
(***************************************************************************)
\* IRQs are taken only while PSTATE.I is clear
IrqUnmasked(pstate) == (pstate \div DAIF_I) % 2 = 0

\* the registers kernel_main runs with when it reaches the scheduler set-up
BootCpu ==
    [x |-> ZeroRegs, sp |-> BOOT_SP, sp_el0 |-> 0, pc |-> KMAIN_PC,
     pstate |-> BOOT_PSTATE, spsr_el1 |-> 0, elr_el1 |-> 0]

\* kernel_main is what executes
KMainOnCpu == cpu.pc \in {KMAIN_PC, KIDLE_PC}

\* a task executes
TaskOnCpu == kpc = "armed" /\ ~KMainOnCpu

\* the ExceptionFrame the EL1 IRQ vector pushes: x0..x30, SP_EL0, ELR_EL1, SPSR_EL1
ExceptionFrame(c) ==
    [x |-> c.x, sp_el0 |-> c.sp_el0, elr_el1 |-> c.pc, spsr_el1 |-> c.pstate]

\* the trampoline sets SP to the returned frame, pops it (RESTORE_REGS) and erets
RestoreAndEret(f) ==
    [x |-> f.x, sp |-> f.addr + FRAME_SIZE, sp_el0 |-> f.sp_el0, pc |-> f.elr_el1,
     pstate |-> f.spsr_el1, spsr_el1 |-> f.spsr_el1, elr_el1 |-> f.elr_el1]

NoFrame == [addr |-> 0, x |-> ZeroRegs, sp_el0 |-> 0, elr_el1 |-> 0, spsr_el1 |-> 0]

(***************************************************************************)
(* Scheduler::schedule                                                      *)
(***************************************************************************)
RECURSIVE schedule_loop(_, _, _, _)
schedule_loop(ts, n, cur, start) ==
    LET c == (cur + 1) % n
    IN  IF ts[c].state = "Ready" THEN c
        ELSE IF c = start THEN c
        ELSE schedule_loop(ts, n, c, start)

\* schedule() taking the next index whatever its state
scheduleNoSkip(ts, n, cur) == IF n = 0 THEN cur ELSE (cur + 1) % n

\* schedule() that moves on even when it found no Ready task
scheduleNoFallback(ts, n, cur) ==
    IF n = 0 THEN cur
    ELSE IF \E i \in 0 .. (n - 1) : ts[i].state = "Ready" THEN schedule_loop(ts, n, cur, cur)
    ELSE (cur + 1) % n

\* schedule() taking the lowest Ready index instead of rotating
scheduleLowest(ts, n, cur) ==
    IF n = 0 THEN cur
    ELSE IF \E i \in 0 .. (n - 1) : ts[i].state = "Ready"
         THEN CHOOSE i \in 0 .. (n - 1) :
                  ts[i].state = "Ready" /\ \A j \in 0 .. (i - 1) : ts[j].state # "Ready"
         ELSE cur

\* the value of current_task after schedule()
schedule(ts, n, cur) == IF n = 0 THEN cur ELSE schedule_loop(ts, n, cur, cur)

(***************************************************************************)
(* Scheduler::spawn                                                         *)
(***************************************************************************)
\* spawn numbering its tasks from 1
SpawnedTaskIdFromOne(task_id, entry_point) ==
    [context |-> TaskContext_init(entry_point, StackTop(task_id)),
     state |-> "Ready",
     id |-> task_id + 1]

\* the task record spawn writes into slot task_id
SpawnedTask(task_id, entry_point) ==
    [context |-> TaskContext_init(entry_point, StackTop(task_id)),
     state |-> "Ready",
     id |-> task_id]

\* a table that takes one task too many
SpawnFullOffByOne(n) == n > MAX_TASKS

\* spawn returns None
SpawnFull(n) == n >= MAX_TASKS

None == -1

(***************************************************************************)
(* scheduler_switch_task: the timer-driven switch                           *)
(***************************************************************************)
\* a copy that takes the frame pointer x29 from the frame's x30
SaveFromFrameFpFromLr(ctx, frame) ==
    [ctx EXCEPT !.x = [r \in Regs |-> IF r = 29 THEN frame.x[30] ELSE frame.x[r]],
                !.pc = frame.elr_el1,
                !.pstate = frame.spsr_el1]

\* the outgoing task's context after the copy from the exception frame
SaveFromFrame(ctx, frame) ==
    [ctx EXCEPT !.x = [r \in Regs |-> frame.x[r]],
                !.pc = frame.elr_el1,
                !.pstate = frame.spsr_el1]

\* a switch that leaves the outgoing task's state alone
OutgoingStateKept(st) == st

\* the outgoing task's state after the save
OutgoingState(st) == "Ready"

\* a switch that does not count itself
CounterAfterSwitchKept(c) == c

\* CONTEXT_SWITCH_COUNTER after fetch_add(1)
CounterAfterSwitch(c) == c + 1

\* a save that writes the frame into the context of every spawned task
SaveOutgoingEveryTask(ts, n, cur, frame) ==
    [i \in Slots |->
        IF i = cur /\ cur < n
        THEN [ts[i] EXCEPT !.context = SaveFromFrame(@, frame), !.state = OutgoingState(@)]
        ELSE IF i < n THEN [ts[i] EXCEPT !.context = SaveFromFrame(@, frame)]
        ELSE ts[i]]

\* the task table after the save of the outgoing task
SaveOutgoing(ts, n, cur, frame) ==
    IF cur < n
    THEN [ts EXCEPT ![cur].context = SaveFromFrame(@, frame),
                    ![cur].state = OutgoingState(@)]
    ELSE ts

\* a frame built at the saved stack pointer instead of below it
BuildFrameAtSp(ctx) ==
    [addr |-> ctx.sp,
     x |-> [r \in Regs |-> ctx.x[r]],
     sp_el0 |-> ctx.sp,
     elr_el1 |-> ctx.pc,
     spsr_el1 |-> ctx.pstate]

\* the frame built on the incoming task's stack, and its address
BuildFrame(ctx) ==
    [addr |-> ctx.sp - FRAME_SIZE,
     x |-> [r \in Regs |-> ctx.x[r]],
     sp_el0 |-> ctx.sp,
     elr_el1 |-> ctx.pc,
     spsr_el1 |-> ctx.pstate]

(***************************************************************************)
(* Scheduler::switch_to_next and switch_context (task.rs)                   *)
(***************************************************************************)
\* switch_context stores x19..x30, sp, the return label and SPSR_EL1 at byte
\* offsets 0..112 of the outgoing context, which are its fields x0..x14
SwitchContextSave(ctx, c) ==
    [ctx EXCEPT !.x = [r \in Regs |->
        IF r <= 11 THEN c.x[19 + r]
        ELSE IF r = 12 THEN c.sp
        ELSE IF r = 13 THEN SWITCH_RET_PC
        ELSE IF r = 14 THEN c.spsr_el1
        ELSE @[r]]]

\* and loads x19..x30, sp and the branch target from the same offsets of the
\* incoming context; x9 is its scratch register
SwitchContextLoad(c, ctx) ==
    [c EXCEPT !.x = [r \in Regs |->
                        IF r >= 19 THEN ctx.x[r - 19]
                        ELSE IF r = 9 THEN ctx.x[13]
                        ELSE @[r]],
              !.sp = ctx.x[12],
              !.pc = ctx.x[13]]

\* the outgoing task's state when switch_to_next gives the CPU away
YieldState(st) == IF st = "Running" THEN "Ready" ELSE st

\* switch_to_next on task table ts: the table, current_task and the CPU after it
switch_to_next(ts, n, cur, c) ==
    IF n <= 1 THEN [tasks |-> ts, current_task |-> cur, cpu |-> c]
    ELSE
        LET prev_task == cur
            ts1 == [ts EXCEPT ![prev_task].state = YieldState(@)]
            next_task == schedule(ts1, n, cur)
            ts2 == [ts1 EXCEPT ![next_task].state = "Running"]
        IN  IF prev_task = next_task
            THEN [tasks |-> ts2, current_task |-> next_task, cpu |-> c]
            ELSE [tasks |-> [ts2 EXCEPT ![prev_task].context = SwitchContextSave(@, c)],
                  current_task |-> next_task,
                  cpu |-> SwitchContextLoad(c, ts2[next_task].context)]

(***************************************************************************)
(* History kept for the properties: it is written by the actions and read  *)
(* by no guard except the bounds on the number of steps of a kind.          *)
(***************************************************************************)
NoSave ==
    [valid |-> FALSE, task |-> FALSE, x |-> ZeroRegs, elr_el1 |-> 0, spsr_el1 |-> 0, sp |-> 0]

\* the record of a preemption: the frame the vector pushed, the stack pointer
\* that was interrupted, and whether it was a task (not kernel_main) that ran
Preempted(c, is_task) ==
    [valid |-> TRUE, task |-> is_task, x |-> c.x, elr_el1 |-> c.pc,
     spsr_el1 |-> c.pstate, sp |-> c.sp]

HistInit ==
    [entry |-> [i \in Slots |-> 0],      \* the entry function given to spawn
     undispatched |-> {},                \* spawned and never yet made Running
     first |-> FALSE,                    \* the last timer-driven dispatch was a first dispatch
     saved |-> [i \in Slots |-> NoSave], \* the preemption each task waits to resume from
     resumed |-> NoSave,                 \* the preemption the last timer-driven dispatch resumes
     wait |-> [i \in Slots |-> 0],       \* consecutive ticks since the task was last dispatched
     runs |-> 0,                         \* Run steps taken
     yields |-> 0,                       \* switch_to_next and block_current calls made
     resets |-> 0,                       \* reset_switch_counter calls made
     switches |-> 0,                     \* scheduler_switch_task runs since the last reset
     reads |-> 0]                        \* get_switch_count calls made

\* an operation that changes which tasks are Blocked ends every window of
\* consecutive timer-driven switches among unblocked tasks
EndWindow(h) == [h EXCEPT !.wait = [i \in Slots |-> 0]]

\* task i was made Running by an operation other than the timer-driven switch
Dispatched(h, i) ==
    [h EXCEPT !.undispatched = @ \ {i}, !.saved[i] = NoSave, !.wait[i] = 0]

(***************************************************************************)
(* IPC (ipc.rs): endpoints, the registry and the messages.  A payload is    *)
(* its length and a serial tag that stands for its bytes.                   *)
(***************************************************************************)
\* the tasks that call the IPC functions, and the endpoint capabilities they use
IpcTasks == {1, 2, 3}
Caps == {1, 2}

\* the payload lengths a sender passes
DataLens == {0, MAX_MESSAGE_SIZE, MAX_MESSAGE_SIZE + 1}

\* IPC_REGISTRY before init() and after it; lock is the task that holds the
\* mutex, 0 when it is free
RegistryNone == [lock |-> 0, some |-> FALSE, endpoints |-> <<>>]
IpcRegistry_new == [lock |-> 0, some |-> TRUE, endpoints |-> <<>>]

\* a guard that is never released
drop_forgotten(holder) == holder

\* the holder of the mutex after its guard, held by holder, is dropped
drop(holder) == holder - holder

IpcEndpoint_new(id) ==
    [id |-> id, messages |-> <<>>, waiting_tasks |-> <<>>, max_queue_size |-> MAX_QUEUE_SIZE]

NoMessage == [sender |-> 0, data |-> [len |-> 0, tag |-> 0], transferred_cap |-> 0]

\* a size check that also refuses the largest payload
MessageTooLargeFromMax(data) == data.len >= MAX_MESSAGE_SIZE

\* Message::new fails with MessageTooLarge
MessageTooLarge(data) == data.len > MAX_MESSAGE_SIZE

\* the message Message::new builds
Message_new(sender, data) == [sender |-> sender, data |-> data, transferred_cap |-> 0]

\* a lookup that falls back to the first endpoint
get_endpoint_first(endpoints, cap_id) ==
    IF Len(endpoints) = 0 THEN 0
    ELSE LET found == {i \in 1 .. Len(endpoints) : endpoints[i].id = cap_id}
         IN  IF found = {} THEN 1 ELSE CHOOSE i \in found : \A j \in found : i <= j

\* get_endpoint_mut: the index of the first endpoint with this id, 0 for None
get_endpoint_mut(endpoints, cap_id) ==
    LET found == {i \in 1 .. Len(endpoints) : endpoints[i].id = cap_id}
    IN  IF found = {} THEN 0 ELSE CHOOSE i \in found : \A j \in found : i <= j

\* a queue that takes one message more
QueueFullAbove(ep) == Len(ep.messages) > ep.max_queue_size

\* IpcEndpoint::send fails with QueueFull
QueueFull(ep) == Len(ep.messages) >= ep.max_queue_size

\* a queue that takes the new message at its head
PushFront(messages, m) == <<m>> \o messages

\* VecDeque::push_back
PushBack(messages, m) == Append(messages, m)

\* IpcEndpoint::add_waiter
add_waiter(ep, task) ==
    IF \E k \in 1 .. Len(ep.waiting_tasks) : ep.waiting_tasks[k] = task
    THEN ep
    ELSE [ep EXCEPT !.waiting_tasks = Append(@, task)]

\* a take that leaves the waiters registered
take_waiters_kept(ep) == ep

\* the endpoint after IpcEndpoint::take_waiters
take_waiters(ep) == [ep EXCEPT !.waiting_tasks = <<>>]

SeqRange(q) == {q[k] : k \in 1 .. Len(q)}

\* a wake-up loop that stops after the first waiter
unblock_first(blk, waiters) == IF Len(waiters) = 0 THEN blk ELSE blk \ {waiters[1]}

\* the Blocked tasks after unblock_task was called for every waiter
unblock_all(blk, waiters) == blk \ SeqRange(waiters)

\* send_message(sender, endpoint_cap, data): the registry and the Blocked tasks it
\* leaves, the value it returns, and the holder of the registry lock while it
\* calls unblock_task
send_message(reg, blk, sender, endpoint_cap, data) ==
    LET i == get_endpoint_mut(reg.endpoints, endpoint_cap)
        failed(e) == [registry |-> reg, blocked |-> blk, val |-> e, lock |-> 0]
    IN  IF MessageTooLarge(data) THEN failed("MessageTooLarge")
        ELSE IF ~reg.some THEN failed("EndpointNotFound")
        ELSE IF i = 0 THEN failed("EndpointNotFound")
        ELSE IF QueueFull(reg.endpoints[i]) THEN failed("QueueFull")
        ELSE LET queued == [reg.endpoints[i] EXCEPT
                               !.messages = PushBack(@, Message_new(sender, data))]
                 waiters == queued.waiting_tasks
             IN  [registry |-> [reg EXCEPT !.endpoints[i] = take_waiters(queued)],
                  blocked |-> unblock_all(blk, waiters),
                  val |-> "Ok",
                  lock |-> drop(sender)]

\* a receive that leaves the message it returns in the queue
try_receive_peek(reg, receiver, endpoint_cap) ==
    LET i == get_endpoint_mut(reg.endpoints, endpoint_cap)
    IN  IF ~reg.some \/ i = 0
        THEN [registry |-> reg, val |-> "EndpointNotFound", msg |-> NoMessage]
        ELSE IF Len(reg.endpoints[i].messages) = 0
        THEN [registry |-> reg, val |-> "None", msg |-> NoMessage]
        ELSE [registry |-> reg, val |-> "Some", msg |-> Head(reg.endpoints[i].messages)]

\* try_receive_message(receiver, endpoint_cap): Err, Ok(None) or Ok(Some(msg))
try_receive_message(reg, receiver, endpoint_cap) ==
    LET i == get_endpoint_mut(reg.endpoints, endpoint_cap)
    IN  IF ~reg.some \/ i = 0
        THEN [registry |-> reg, val |-> "EndpointNotFound", msg |-> NoMessage]
        ELSE IF Len(reg.endpoints[i].messages) = 0
        THEN [registry |-> reg, val |-> "None", msg |-> NoMessage]
        ELSE [registry |-> [reg EXCEPT !.endpoints[i].messages = Tail(@)],
              val |-> "Some",
              msg |-> Head(reg.endpoints[i].messages)]

\* a task outside receive_message_blocking
RxIdle == [pc |-> "idle", cap |-> 0, woken |-> FALSE, rounds |-> 0]

IpcHistInit ==
    [sent |-> [c \in Caps |-> <<>>],   \* the messages send_message accepted, per capability
     got |-> [c \in Caps |-> <<>>],    \* the messages the receive functions returned
     tag |-> 0,                        \* the serial of the last payload passed to send_message
     recvs |-> 0]                      \* receive calls made

(***************************************************************************)
(* The sandbox host (wasm_runtime.rs): the imports a guest calls, the       *)
(* global delivery queue and the subscriber registry.  Guest bytes are not  *)
(* modelled byte by byte: the slice data[ptr .. ptr+len] of an instance's   *)
(* memory is the record Bytes(instance, ptr, len).                          *)
(***************************************************************************)
\* the loaded instances and the client ids guests pass
Instances == {1, 2}
ClientIds == {1, 2}

\* the capability id the kernel grants
GrantCaps == {1}

\* the i32 values a guest passes as a pointer and as a length
PtrArgs == {-1, 0, 8}
LenArgs == {-1, 8, MemLen}

\* WasmContext::new(Vec::new()) in WasmModule::from_bytes
WasmContext_new == <<>>

\* "x as usize" of an i32 on a 64-bit target: sign extension.  A usize is written
\* [high |-> FALSE, low |-> n] for n and [high |-> TRUE, low |-> m] for 2^64 - m
AsUsize(i) == IF i < 0 THEN [high |-> TRUE, low |-> -i] ELSE [high |-> FALSE, low |-> i]

\* a + b on usize: the sum modulo 2^64 and whether the addition overflowed
UsizeAdd(a, b) ==
    IF ~a.high /\ ~b.high
    THEN [sum |-> [high |-> FALSE, low |-> a.low + b.low], overflow |-> FALSE]
    ELSE IF a.high /\ b.high
    THEN [sum |-> [high |-> TRUE, low |-> a.low + b.low], overflow |-> TRUE]
    ELSE LET m == IF a.high THEN a.low ELSE b.low
             n == IF a.high THEN b.low ELSE a.low
         IN  IF n >= m
             THEN [sum |-> [high |-> FALSE, low |-> n - m], overflow |-> TRUE]
             ELSE [sum |-> [high |-> TRUE, low |-> m - n], overflow |-> FALSE]

\* u > n for a usize u and a memory length n
UsizeGt(u, n) == u.high \/ u.low > n

\* "if ptr + len > data.len() { return -1 }": the addition panics on overflow in a
\* build with overflow checks and wraps in one without
BoundsCheck(ptr, len, data_len, checks) ==
    LET r == UsizeAdd(AsUsize(ptr), AsUsize(len))
    IN  IF r.overflow /\ checks THEN "panic"
        ELSE IF UsizeGt(r.sum, data_len) THEN "oob"
        ELSE "pass"

\* "&data[ptr..ptr + len]" panics when the range is reversed or ends past the memory
SlicePanics(ptr, len, data_len) ==
    LET start == AsUsize(ptr)
        end == UsizeAdd(AsUsize(ptr), AsUsize(len)).sum
    IN  start.high \/ end.high \/ start.low > end.low \/ end.low > data_len

\* the bytes data[ptr .. ptr+len] of an instance's memory
Bytes(instance, ptr, len) == [mem |-> instance, ptr |-> ptr, len |-> len]

\* serial output: bytes read from guest memory, or a text of the host's own
GuestOut(bytes) == [guest |-> TRUE, bytes |-> bytes]
HostOut == [guest |-> FALSE, bytes |-> Bytes(0, 0, 0)]

\* a send that enqueues for client 1 whatever the destination
IpcMessageToFirst(dest_client_id, message) == [dest_client_id |-> 1, message |-> message]

\* IpcMessage { dest_client_id, message }
IpcMessage(dest_client_id, message) == [dest_client_id |-> dest_client_id, message |-> message]

\* recorded as the value of a call that hands no value to the guest: the import
\* returns () or does not return
NoValue == 0

\* what an import returns and leaves behind
HostResult(val, queue, subscribers, log) ==
    [val |-> val, panicked |-> FALSE, queue |-> queue, subscribers |-> subscribers,
     serial |-> log]

\* the import panicked: nothing is returned to the guest
HostPanic(queue, subscribers, log) ==
    [val |-> NoValue, panicked |-> TRUE, queue |-> queue, subscribers |-> subscribers,
     serial |-> log]

\* a capability check that lets every module through
NoCapabilityAlways(caps) == FALSE

\* "caller.data().capabilities.is_empty()"
NoCapability(caps) == Len(caps) = 0

\* host_sys_ipc_send(caller, dest, msg_ptr, msg_len)
host_sys_ipc_send(caps, queue, subscribers, log, instance, dest, msg_ptr, msg_len, checks) ==
    IF NoCapability(caps)
    THEN HostResult(-1, queue, subscribers, Append(log, HostOut))
    ELSE LET c == BoundsCheck(msg_ptr, msg_len, MemLen, checks)
         IN  IF c = "panic" THEN HostPanic(queue, subscribers, log)
             ELSE IF c = "oob" THEN HostResult(-1, queue, subscribers, log)
             ELSE IF SlicePanics(msg_ptr, msg_len, MemLen)
             THEN HostPanic(queue, subscribers, log)
             ELSE LET msg == Bytes(instance, msg_ptr, msg_len)
                  IN  HostResult(0, Append(queue, IpcMessage(dest, msg)), subscribers,
                                 Append(log, GuestOut(msg)))

\* a registry that takes the client once more whether or not it is there
SubscribedAgain(subscribers, client_id) == Append(subscribers, client_id)

\* "if !subscribers.contains(&client_id) { subscribers.push(client_id) }"
Subscribed(subscribers, client_id) ==
    IF \E k \in 1 .. Len(subscribers) : subscribers[k] = client_id
    THEN subscribers
    ELSE Append(subscribers, client_id)

\* host_sys_mqtt_subscribe(caller, client_id, topic_ptr, topic_len)
host_sys_mqtt_subscribe(queue, subscribers, log, instance, client_id, topic_ptr, topic_len, checks) ==
    LET c == BoundsCheck(topic_ptr, topic_len, MemLen, checks)
    IN  IF c = "panic" THEN HostPanic(queue, subscribers, log)
        ELSE IF c = "oob" THEN HostResult(-1, queue, subscribers, log)
        ELSE IF SlicePanics(topic_ptr, topic_len, MemLen)
        THEN HostPanic(queue, subscribers, log)
        ELSE HostResult(0, queue, Subscribed(subscribers, client_id),
                        Append(log, GuestOut(Bytes(instance, topic_ptr, topic_len))))

\* a publish that reaches nobody
PublishToNone(queue, subscribers, msg) == queue

\* a publish that reaches only the first subscriber
PublishToFirst(queue, subscribers, msg) ==
    IF Len(subscribers) = 0 THEN queue
    ELSE Append(queue, [dest_client_id |-> Head(subscribers), message |-> msg])

\* the messages a publish enqueues: one per subscriber, in registry order
RECURSIVE PublishTo(_, _, _)
PublishTo(queue, subscribers, msg) ==
    IF Len(subscribers) = 0 THEN queue
    ELSE PublishTo(Append(queue, IpcMessage(Head(subscribers), msg)), Tail(subscribers), msg)

\* host_sys_mqtt_publish(caller, topic_ptr, topic_len, msg_ptr, msg_len)
host_sys_mqtt_publish(queue, subscribers, log, instance, topic_ptr, topic_len, msg_ptr, msg_len, checks) ==
    LET ct == BoundsCheck(topic_ptr, topic_len, MemLen, checks)
        cm == BoundsCheck(msg_ptr, msg_len, MemLen, checks)
    IN  IF ct = "panic" THEN HostPanic(queue, subscribers, log)
        ELSE IF ct = "oob" THEN HostResult(-1, queue, subscribers, log)
        ELSE IF cm = "panic" THEN HostPanic(queue, subscribers, log)
        ELSE IF cm = "oob" THEN HostResult(-1, queue, subscribers, log)
        ELSE IF SlicePanics(topic_ptr, topic_len, MemLen) \/ SlicePanics(msg_ptr, msg_len, MemLen)
        THEN HostPanic(queue, subscribers, log)
        ELSE LET msg == Bytes(instance, msg_ptr, msg_len)
             IN  HostResult(Len(subscribers), PublishTo(queue, subscribers, msg), subscribers,
                            log \o <<GuestOut(Bytes(instance, topic_ptr, topic_len)),
                                     GuestOut(msg)>>)

\* host_sys_print(caller, msg_ptr, msg_len)
host_sys_print(queue, subscribers, log, instance, msg_ptr, msg_len, checks) ==
    LET c == BoundsCheck(msg_ptr, msg_len, MemLen, checks)
    IN  IF c = "panic" THEN HostPanic(queue, subscribers, log)
        ELSE IF c = "oob" THEN HostResult(NoValue, queue, subscribers, Append(log, HostOut))
        ELSE IF SlicePanics(msg_ptr, msg_len, MemLen)
        THEN HostPanic(queue, subscribers, log)
        ELSE HostResult(NoValue, queue, subscribers,
                        Append(log, GuestOut(Bytes(instance, msg_ptr, msg_len))))

\* deliver_pending_messages: where it copies the message and how much of it
MSG_BUFFER_OFFSET == 1024
MSG_BUFFER_MAX == 512

\* a delivery that takes the head of the queue whoever it is for
position_head(queue, client_id) == IF Len(queue) > 0 THEN 1 ELSE 0

\* a delivery that takes the newest message for the client
position_last(queue, client_id) ==
    IF \E k \in 1 .. Len(queue) : queue[k].dest_client_id = client_id
    THEN CHOOSE k \in 1 .. Len(queue) :
             /\ queue[k].dest_client_id = client_id
             /\ \A j \in (k + 1) .. Len(queue) : queue[j].dest_client_id # client_id
    ELSE 0

\* "queue.iter().position(|m| m.dest_client_id == client_id)": the index of the
\* first message for the client, 0 for None
position(queue, client_id) ==
    IF \E k \in 1 .. Len(queue) : queue[k].dest_client_id = client_id
    THEN CHOOSE k \in 1 .. Len(queue) :
             /\ queue[k].dest_client_id = client_id
             /\ \A j \in 1 .. (k - 1) : queue[j].dest_client_id # client_id
    ELSE 0

\* "queue.remove(pos)": the queue without its element pos
remove(queue, pos) == SubSeq(queue, 1, pos - 1) \o SubSeq(queue, pos + 1, Len(queue))

\* "ipc_msg.message.len().min(512)"
msg_len_min(message) == IF message.len < MSG_BUFFER_MAX THEN message.len ELSE MSG_BUFFER_MAX

\* "data[1024..1024 + msg_len].copy_from_slice(&ipc_msg.message[..msg_len])": what
\* the subscriber's memory holds at the buffer offset
Copied(message, msg_len) == [message |-> message, len |-> msg_len]
NothingCopied == Copied(Bytes(0, 0, 0), 0)

\* no deliver_pending_messages call is running.  args and buffer are what the
\* last subscriber_receive was given; failed, invoked and calls are history:
\* whether an invocation of the running call has failed, the invocations made
\* and the calls started so far
DeliveryIdle ==
    [pc |-> "idle", subscriber |-> 0, client_id |-> 0, delivered |-> 0, failed |-> FALSE,
     args |-> <<0, 0>>, buffer |-> NothingCopied, invoked |-> 0, calls |-> 0]

\* the calls kernel_main makes, in program order, before it spawns the tasks
KMainSteps ==
    <<"arch::init", "init_heap", "capability::init", "wasm_runtime::init",
      "demos::run_demos", "benchmark::run_benchmark_suite", "arch::scheduler::init">>

KMainAtEntry == [pc |-> 1, log |-> <<>>]
KMainAtSpawn == [pc |-> Len(KMainSteps) + 1, log |-> KMainSteps]

\* the tasks kernel_main spawns in demo mode: task1, task2, task3
KMAIN_TASKS == 3

(***************************************************************************)
(* Initial state: the statics as the linker lays them out, kernel_main      *)
(* about to set up the scheduler with IRQs masked.                          *)
(***************************************************************************)
InitAt(k) ==
    /\ kmain = k
    /\ tasks = [i \in Slots |-> Task_new]
    /\ num_tasks = 0
    /\ current_task = 0
    /\ switch_counter = 0
    /\ cpu = BootCpu
    /\ next_frame = NoFrame
    /\ kpc = "boot"
    /\ ret = [op |-> "init", val |-> 0, prev |-> 0]
    /\ hist = HistInit
    /\ registry = RegistryNone
    /\ rx = [t \in IpcTasks |-> RxIdle]
    /\ blocked_tasks = {}
    /\ ipc = IpcHistInit
    /\ IPC_MESSAGE_QUEUE = <<>>
    /\ MQTT_SUBSCRIBERS = <<>>
    /\ capabilities = [m \in Instances |-> WasmContext_new]
    /\ serial = <<>>
    /\ wasm = [calls |-> 0, panicked |-> FALSE, grants |-> [m \in Instances |-> 0]]
    /\ delivery = DeliveryIdle

\* kernel_main has done its initialisation calls and is about to spawn the tasks
Init == InitAt(KMainAtSpawn)

\* kernel_main is entered from boot.S
InitBoot == InitAt(KMainAtEntry)

(***************************************************************************)
(* Actions                                                                  *)
(***************************************************************************)
\* kernel_main makes the next of its initialisation calls
KMainStep ==
    /\ kpc = "boot"
    /\ kmain.pc <= Len(KMainSteps)
    /\ kmain' = [pc |-> kmain.pc + 1, log |-> Append(kmain.log, KMainSteps[kmain.pc])]
    /\ ret' = [op |-> KMainSteps[kmain.pc], val |-> 0, prev |-> current_task]
    /\ UNCHANGED <<tasks, num_tasks, current_task, switch_counter, cpu, next_frame, kpc, hist,
                   ipc_vars, wasm_vars>>

\* spawn(entry_point), called by kernel_main before the IRQ unmask
Spawn(entry_point) ==
    /\ kpc = "boot"
    /\ IF SpawnFull(num_tasks)
       THEN /\ ret' = [op |-> "spawn", val |-> None, prev |-> current_task]
            /\ UNCHANGED <<tasks, num_tasks, hist>>
       ELSE /\ tasks' = [tasks EXCEPT ![num_tasks] = SpawnedTask(num_tasks, entry_point)]
            /\ num_tasks' = num_tasks + 1
            /\ ret' = [op |-> "spawn", val |-> num_tasks, prev |-> current_task]
            /\ hist' = [EndWindow(hist) EXCEPT !.entry[num_tasks] = entry_point,
                                               !.undispatched = @ \cup {num_tasks}]
    /\ UNCHANGED <<current_task, switch_counter, cpu, next_frame, kpc,
                 kmain, ipc_vars, wasm_vars>>

\* kernel_main: "msr daifclr, #2", then enable_scheduler()
Arm ==
    /\ kpc = "boot"
    /\ kpc' = "armed"
    /\ cpu' = [cpu EXCEPT !.pstate = IF IrqUnmasked(@) THEN @ ELSE @ - DAIF_I]
    /\ ret' = [op |-> "arm", val |-> 0, prev |-> current_task]
    /\ UNCHANGED <<tasks, num_tasks, current_task, switch_counter, next_frame, hist,
                 kmain, ipc_vars, wasm_vars>>

\* kernel_main: mark task 0 Running and eret into its context
BootDispatch ==
    /\ kpc = "armed"
    /\ cpu.pc = KMAIN_PC
    /\ IF num_tasks > 0
       THEN /\ tasks' = [tasks EXCEPT ![0].state = "Running"]
            /\ cpu' = [cpu EXCEPT !.sp = tasks[0].context.sp,
                                  !.spsr_el1 = tasks[0].context.pstate,
                                  !.elr_el1 = tasks[0].context.pc,
                                  !.pc = tasks[0].context.pc,
                                  !.pstate = tasks[0].context.pstate]
            /\ hist' = Dispatched(hist, 0)
       ELSE /\ cpu' = [cpu EXCEPT !.pc = KIDLE_PC]
            /\ UNCHANGED <<tasks, hist>>
    /\ ret' = [op |-> "boot", val |-> 0, prev |-> current_task]
    /\ UNCHANGED <<num_tasks, current_task, switch_counter, next_frame, kpc,
                 kmain, ipc_vars, wasm_vars>>

\* scheduler_switch_task(frame_ptr), called by the IRQ handler on a timer tick
\* once enable_scheduler() has run, followed by the trampoline's restore and eret
Tick ==
    /\ kpc = "armed"
    /\ IrqUnmasked(cpu.pstate)
    /\ switch_counter < MaxSwitchCount
    /\ LET frame == ExceptionFrame(cpu)
           prev_task == current_task
           saved == SaveOutgoing(tasks, num_tasks, prev_task, frame)
           next_idx == schedule(saved, num_tasks, prev_task)
           after == [saved EXCEPT ![next_idx].state = "Running"]
           built == BuildFrame(after[next_idx].context)
           blocked == \E i \in Slots : i < num_tasks /\ tasks[i].state = "Blocked"
           h1 == IF prev_task < num_tasks
                 THEN [hist EXCEPT !.saved[prev_task] = Preempted(cpu, ~KMainOnCpu)]
                 ELSE hist
       IN  /\ tasks' = after
           /\ current_task' = next_idx
           /\ switch_counter' = CounterAfterSwitch(switch_counter)
           /\ next_frame' = built
           /\ cpu' = RestoreAndEret(built)
           /\ ret' = [op |-> "tick", val |-> next_idx, prev |-> prev_task]
           /\ hist' = [h1 EXCEPT
                         !.first = next_idx \in hist.undispatched,
                         !.undispatched = @ \ {next_idx},
                         !.resumed = h1.saved[next_idx],
                         !.saved[next_idx] = NoSave,
                         !.switches = @ + 1,
                         !.wait = [i \in Slots |->
                                     IF blocked \/ i >= num_tasks \/ i = next_idx
                                     THEN 0 ELSE @[i] + 1]]
    /\ UNCHANGED <<num_tasks, kpc,
                 kmain, ipc_vars, wasm_vars>>

\* switch_to_next(), called by the running task
SwitchToNext ==
    /\ TaskOnCpu
    /\ hist.yields < MaxYields
    /\ LET r == switch_to_next(tasks, num_tasks, current_task, cpu)
       IN  /\ tasks' = r.tasks
           /\ current_task' = r.current_task
           /\ cpu' = r.cpu
           /\ ret' = [op |-> "switch_to_next", val |-> r.current_task, prev |-> current_task]
           /\ hist' = [(IF num_tasks > 1 THEN Dispatched(hist, r.current_task) ELSE hist)
                         EXCEPT !.yields = @ + 1]
    /\ UNCHANGED <<num_tasks, switch_counter, next_frame, kpc,
                 kmain, ipc_vars, wasm_vars>>

\* block_current(): the running task becomes Blocked and yields to the scheduler
BlockCurrent ==
    /\ TaskOnCpu
    /\ hist.yields < MaxYields
    /\ current_task < num_tasks
    /\ LET blocked == [tasks EXCEPT ![current_task].state = "Blocked"]
           r == switch_to_next(blocked, num_tasks, current_task, cpu)
       IN  /\ tasks' = r.tasks
           /\ current_task' = r.current_task
           /\ cpu' = r.cpu
           /\ ret' = [op |-> "block_current", val |-> r.current_task, prev |-> current_task]
           /\ hist' = [(IF num_tasks > 1
                        THEN Dispatched(EndWindow(hist), r.current_task)
                        ELSE EndWindow(hist))
                         EXCEPT !.yields = @ + 1]
    /\ UNCHANGED <<num_tasks, switch_counter, next_frame, kpc,
                 kmain, ipc_vars, wasm_vars>>

\* unblock_task(task_id): the explicit wake of a Blocked task
Unblock(task_id) ==
    /\ TaskOnCpu
    /\ task_id < num_tasks
    /\ tasks[task_id].state = "Blocked"
    /\ tasks' = [tasks EXCEPT ![task_id].state = "Ready"]
    /\ ret' = [op |-> "unblock_task", val |-> task_id, prev |-> current_task]
    /\ hist' = EndWindow(hist)
    /\ UNCHANGED <<num_tasks, current_task, switch_counter, cpu, next_frame, kpc,
                 kmain, ipc_vars, wasm_vars>>

\* reset_switch_counter(), called by kernel_main before it unmasks IRQs or by a task
ResetSwitchCounter ==
    /\ kpc = "boot" \/ TaskOnCpu
    /\ hist.resets < MaxResets
    /\ switch_counter' = 0
    /\ ret' = [op |-> "reset_switch_counter", val |-> 0, prev |-> current_task]
    /\ hist' = [hist EXCEPT !.resets = @ + 1, !.switches = 0]
    /\ UNCHANGED <<tasks, num_tasks, current_task, cpu, next_frame, kpc,
                 kmain, ipc_vars, wasm_vars>>

\* get_switch_count(): the barriers and the SeqCst load of the counter
GetSwitchCount ==
    /\ kpc = "boot" \/ TaskOnCpu
    /\ hist.reads < MaxReads
    /\ ret' = [op |-> "get_switch_count", val |-> switch_counter, prev |-> current_task]
    /\ hist' = [hist EXCEPT !.reads = @ + 1]
    /\ UNCHANGED <<tasks, num_tasks, current_task, switch_counter, cpu, next_frame, kpc,
                 kmain, ipc_vars, wasm_vars>>

(***************************************************************************)
(* The running task executes its own code: it writes a register, pushes on *)
(* its stack or advances its program counter.                               *)
(***************************************************************************)
CanRun == TaskOnCpu /\ hist.runs < MaxRuns

Ran(c) ==
    /\ cpu' = c
    /\ ret' = [op |-> "run", val |-> 0, prev |-> current_task]
    /\ hist' = [hist EXCEPT !.runs = @ + 1]
    /\ UNCHANGED <<tasks, num_tasks, current_task, switch_counter, next_frame, kpc,
                 kmain, ipc_vars, wasm_vars>>

\* the registers a task writes in the model: the first and last caller-saved
\* ones, the first callee-saved one, the frame pointer and the link register
ProbeRegs == {0, 18, 19, 29, 30}

\* the values it writes to them
RegVals == {0, 1}

RunWriteReg(r, v) == CanRun /\ cpu.x[r] # v /\ Ran([cpu EXCEPT !.x[r] = v])

RunPush == CanRun /\ Ran([cpu EXCEPT !.sp = @ - 16])

RunStep == CanRun /\ Ran([cpu EXCEPT !.pc = @ + 4])

(***************************************************************************)
(* IPC actions.  A task that is not Blocked and not inside                  *)
(* receive_message_blocking calls send_message, try_receive_message or      *)
(* receive_message_blocking; the functions that take the registry lock once *)
(* are one step, receive_message_blocking is one step per lock section and  *)
(* one for block_current, with other tasks free to run in between.          *)
(***************************************************************************)
CanCall(t) == t \notin blocked_tasks /\ rx[t].pc = "idle"

IpcRet(op, val, t, c, m) == [op |-> op, val |-> val, prev |-> t, cap |-> c, msg |-> m]

\* init(), once during boot
IpcInit ==
    /\ registry.lock = 0
    /\ ~registry.some
    /\ registry' = IpcRegistry_new
    /\ ret' = IpcRet("ipc_init", "Ok", 0, 0, NoMessage)
    /\ UNCHANGED <<sched_vars, hist, wasm_vars, rx, blocked_tasks, ipc>>

\* create_endpoint(cap_id)
CreateEndpoint(cap_id) ==
    /\ registry.lock = 0
    /\ Len(registry.endpoints) < MaxEndpoints
    /\ IF ~registry.some
       THEN /\ ret' = IpcRet("create_endpoint", "EndpointNotFound", 0, cap_id, NoMessage)
            /\ UNCHANGED registry
       ELSE /\ registry' = [registry EXCEPT !.endpoints = Append(@, IpcEndpoint_new(cap_id))]
            /\ ret' = IpcRet("create_endpoint", "Ok", 0, cap_id, NoMessage)
    /\ UNCHANGED <<sched_vars, hist, wasm_vars, rx, blocked_tasks, ipc>>

\* send_message(sender, endpoint_cap, data) with a payload of len bytes
SendMessage(sender, endpoint_cap, len) ==
    /\ CanCall(sender)
    /\ registry.lock = 0
    /\ LET data == [len |-> len, tag |-> ipc.tag + 1]
           r == send_message(registry, blocked_tasks, sender, endpoint_cap, data)
       IN  /\ registry' = r.registry
           /\ blocked_tasks' = r.blocked
           /\ rx' = [t \in IpcTasks |->
                       IF t \in blocked_tasks /\ t \notin r.blocked
                       THEN [rx[t] EXCEPT !.woken = TRUE] ELSE rx[t]]
           /\ ret' = [op |-> "send_message", val |-> r.val, prev |-> sender,
                       cap |-> endpoint_cap, msg |-> Message_new(sender, data),
                       lock |-> r.lock]
           /\ ipc' = [ipc EXCEPT
                        !.tag = @ + 1,
                        !.sent = IF r.val = "Ok"
                                 THEN [@ EXCEPT ![endpoint_cap] =
                                         Append(@, Message_new(sender, data))]
                                 ELSE @]
    /\ UNCHANGED <<sched_vars, hist, wasm_vars>>

\* try_receive_message(receiver, endpoint_cap)
TryReceive(receiver, endpoint_cap) ==
    /\ CanCall(receiver)
    /\ registry.lock = 0
    /\ ipc.recvs < MaxRecvs
    /\ LET r == try_receive_message(registry, receiver, endpoint_cap)
       IN  /\ registry' = r.registry
           /\ ret' = IpcRet("try_receive_message", r.val, receiver, endpoint_cap, r.msg)
           /\ ipc' = [ipc EXCEPT
                        !.recvs = @ + 1,
                        !.got = IF r.val = "Some"
                                THEN [@ EXCEPT ![endpoint_cap] = Append(@, r.msg)]
                                ELSE @]
    /\ UNCHANGED <<sched_vars, hist, wasm_vars, rx, blocked_tasks>>

\* receive_message_blocking(receiver, endpoint_cap), the top of its loop: the
\* call of try_receive_message, on entry and after each wake-up
RecvTry(receiver, endpoint_cap) ==
    /\ receiver \notin blocked_tasks
    /\ registry.lock = 0
    /\ \/ rx[receiver].pc = "idle" /\ ipc.recvs < MaxRecvs
       \/ rx[receiver].pc = "try" /\ rx[receiver].cap = endpoint_cap
    /\ LET r == try_receive_message(registry, receiver, endpoint_cap)
       IN  /\ registry' = r.registry
           /\ IF r.val = "None"
              THEN /\ rx' = [rx EXCEPT ![receiver] =
                               [pc |-> "register", cap |-> endpoint_cap, woken |-> FALSE,
                                rounds |-> rx[receiver].rounds]]
                   /\ ret' = IpcRet("receive_retry", "None", receiver, endpoint_cap, NoMessage)
              ELSE /\ rx' = [rx EXCEPT ![receiver] = RxIdle]
                   /\ ret' = IpcRet("receive_message_blocking",
                                    IF r.val = "Some" THEN "Ok" ELSE r.val,
                                    receiver, endpoint_cap, r.msg)
           /\ ipc' = [ipc EXCEPT
                        !.recvs = IF rx[receiver].pc = "idle" THEN @ + 1 ELSE @,
                        !.got = IF r.val = "Some"
                                THEN [@ EXCEPT ![endpoint_cap] = Append(@, r.msg)]
                                ELSE @]
    /\ UNCHANGED <<sched_vars, hist, wasm_vars, blocked_tasks>>

\* receive_message_blocking: the second lock section, which registers the waiter
\* and drops the guard where its block ends
RecvRegister(receiver) ==
    /\ receiver \notin blocked_tasks
    /\ registry.lock = 0
    /\ rx[receiver].pc = "register"
    /\ LET i == get_endpoint_mut(registry.endpoints, rx[receiver].cap)
       IN  IF ~registry.some \/ i = 0
           THEN /\ rx' = [rx EXCEPT ![receiver] = RxIdle]
                /\ ret' = IpcRet("receive_message_blocking", "EndpointNotFound",
                                 receiver, rx[receiver].cap, NoMessage)
                /\ UNCHANGED registry
           ELSE /\ registry' = [registry EXCEPT
                                  !.endpoints[i] = add_waiter(@, receiver),
                                  !.lock = drop(receiver)]
                /\ rx' = [rx EXCEPT ![receiver].pc = "block"]
                /\ ret' = IpcRet("receive_register", "Ok", receiver, rx[receiver].cap, NoMessage)
    /\ UNCHANGED <<sched_vars, hist, wasm_vars, blocked_tasks, ipc>>

\* receive_message_blocking: block_current(); the task runs again, at the top of
\* the loop, once unblock_task has been called for it
RecvBlock(receiver) ==
    /\ receiver \notin blocked_tasks
    /\ rx[receiver].pc = "block"
    /\ blocked_tasks' = blocked_tasks \cup {receiver}
    /\ rx' = [rx EXCEPT ![receiver].pc = "try", ![receiver].rounds = @ + 1]
    /\ ret' = [op |-> "receive_block", val |-> "Ok", prev |-> receiver,
                cap |-> rx[receiver].cap, msg |-> NoMessage, lock |-> registry.lock]
    /\ UNCHANGED <<sched_vars, hist, wasm_vars, registry, ipc>>

(***************************************************************************)
(* Sandbox host actions: a guest of instance m calls an import, or the      *)
(* kernel grants a capability to an instance.  A panic inside an import     *)
(* aborts the kernel.                                                       *)
(***************************************************************************)
WasmRet(op, val, m, args) == [op |-> op, val |-> val, prev |-> m, args |-> args]

\* the state an import leaves
Imported(r) ==
    /\ IPC_MESSAGE_QUEUE' = r.queue
    /\ MQTT_SUBSCRIBERS' = r.subscribers
    /\ serial' = r.serial
    /\ wasm' = [wasm EXCEPT !.calls = @ + 1, !.panicked = r.panicked]
    /\ UNCHANGED <<sched_vars, hist, ipc_vars, capabilities, delivery>>

\* guest code of instance m is running: the kernel has called one of its
\* functions, or deliver_pending_messages is inside its subscriber_receive
CanImport(m) ==
    /\ ~wasm.panicked
    /\ delivery.pc = "idle" \/ (delivery.pc = "invoke" /\ delivery.subscriber = m)

\* the kernel itself is running, outside deliver_pending_messages
KernelRuns == ~wasm.panicked /\ delivery.pc = "idle"

HostSysPrint(m, msg_ptr, msg_len, checks) ==
    /\ CanImport(m)
    /\ LET r == host_sys_print(IPC_MESSAGE_QUEUE, MQTT_SUBSCRIBERS, serial, m,
                               msg_ptr, msg_len, checks)
       IN  /\ Imported(r)
           /\ ret' = WasmRet("sys_print", r.val, m, <<msg_ptr, msg_len>>)

HostSysMqttSubscribe(m, client_id, topic_ptr, topic_len, checks) ==
    /\ CanImport(m)
    /\ LET r == host_sys_mqtt_subscribe(IPC_MESSAGE_QUEUE, MQTT_SUBSCRIBERS, serial, m,
                                        client_id, topic_ptr, topic_len, checks)
       IN  /\ Imported(r)
           /\ ret' = WasmRet("sys_mqtt_subscribe", r.val, m,
                             <<client_id, topic_ptr, topic_len>>)

HostSysMqttPublish(m, topic_ptr, topic_len, msg_ptr, msg_len, checks) ==
    /\ CanImport(m)
    /\ LET r == host_sys_mqtt_publish(IPC_MESSAGE_QUEUE, MQTT_SUBSCRIBERS, serial, m,
                                      topic_ptr, topic_len, msg_ptr, msg_len, checks)
       IN  /\ Imported(r)
           /\ ret' = WasmRet("sys_mqtt_publish", r.val, m,
                             <<topic_ptr, topic_len, msg_ptr, msg_len>>)

HostSysIpcSend(m, dest, msg_ptr, msg_len, checks) ==
    /\ CanImport(m)
    /\ LET r == host_sys_ipc_send(capabilities[m], IPC_MESSAGE_QUEUE, MQTT_SUBSCRIBERS,
                                  serial, m, dest, msg_ptr, msg_len, checks)
       IN  /\ Imported(r)
           /\ ret' = WasmRet("sys_ipc_send", r.val, m, <<dest, msg_ptr, msg_len>>)

\* WasmModule::grant_capability(cap_id)
GrantCapability(m, cap_id) ==
    /\ KernelRuns
    /\ Len(capabilities[m]) < MaxGrants
    /\ capabilities' = [capabilities EXCEPT ![m] = Append(@, cap_id)]
    /\ wasm' = [wasm EXCEPT !.grants[m] = @ + 1]
    /\ ret' = WasmRet("grant_capability", NoValue, m, <<cap_id>>)
    /\ UNCHANGED <<sched_vars, hist, ipc_vars, IPC_MESSAGE_QUEUE, MQTT_SUBSCRIBERS, serial,
                   delivery>>

\* WasmModule::capability_count()
CapabilityCount(m) ==
    /\ KernelRuns
    /\ ret' = WasmRet("capability_count", Len(capabilities[m]), m, <<>>)
    /\ UNCHANGED <<sched_vars, hist, kmain, ipc_vars, wasm_vars>>

\* deliver_pending_messages(subscriber, client_id) is entered: "delivered = 0"
DeliverBegin(m, client_id) ==
    /\ KernelRuns
    /\ delivery' = [delivery EXCEPT !.pc = "pop", !.subscriber = m, !.client_id = client_id,
                                    !.delivered = 0, !.failed = FALSE, !.calls = @ + 1]
    /\ ret' = WasmRet("deliver_begin", NoValue, m, <<client_id>>)
    /\ UNCHANGED <<sched_vars, hist, ipc_vars, IPC_MESSAGE_QUEUE, MQTT_SUBSCRIBERS,
                   capabilities, serial, wasm>>

\* one turn of the loop up to the guest call: take the first message for the
\* client out of the queue, copy it into the subscriber's memory and enter
\* subscriber_receive; with no message for the client the call returns delivered
DeliverPop ==
    /\ ~wasm.panicked
    /\ delivery.pc = "pop"
    /\ LET pos == position(IPC_MESSAGE_QUEUE, delivery.client_id)
       IN  IF pos = 0
           THEN /\ delivery' = [delivery EXCEPT !.pc = "idle"]
                /\ ret' = WasmRet("deliver_pending_messages", delivery.delivered,
                                  delivery.subscriber, <<delivery.client_id>>)
                /\ UNCHANGED <<IPC_MESSAGE_QUEUE, serial>>
           ELSE LET ipc_msg == IPC_MESSAGE_QUEUE[pos]
                    msg_len == msg_len_min(ipc_msg.message)
                IN  /\ IPC_MESSAGE_QUEUE' = remove(IPC_MESSAGE_QUEUE, pos)
                    /\ IF MSG_BUFFER_OFFSET + msg_len <= MemLen
                       THEN /\ delivery' = [delivery EXCEPT
                                              !.pc = "invoke",
                                              !.args = <<MSG_BUFFER_OFFSET, msg_len>>,
                                              !.buffer = Copied(ipc_msg.message, msg_len),
                                              !.invoked = @ + 1]
                            /\ ret' = WasmRet("subscriber_receive", NoValue,
                                              delivery.subscriber,
                                              <<MSG_BUFFER_OFFSET, msg_len>>)
                            /\ UNCHANGED serial
                       ELSE /\ serial' = Append(serial, HostOut)
                            /\ ret' = WasmRet("deliver_too_large", NoValue,
                                              delivery.subscriber, <<delivery.client_id>>)
                            /\ UNCHANGED delivery
    /\ UNCHANGED <<sched_vars, hist, ipc_vars, MQTT_SUBSCRIBERS, capabilities, wasm>>

\* subscriber_receive comes back: Ok counts the message, Err is logged, and the
\* loop goes round again in both cases
DeliverResult(ok) ==
    /\ ~wasm.panicked
    /\ delivery.pc = "invoke"
    /\ delivery' = [delivery EXCEPT !.pc = "pop",
                                    !.delivered = IF ok THEN @ + 1 ELSE @,
                                    !.failed = @ \/ ~ok]
    /\ serial' = IF ok THEN serial ELSE Append(serial, HostOut)
    /\ ret' = WasmRet("subscriber_receive_result", IF ok THEN 0 ELSE -1,
                      delivery.subscriber, delivery.args)
    /\ UNCHANGED <<sched_vars, hist, ipc_vars, IPC_MESSAGE_QUEUE, MQTT_SUBSCRIBERS,
                   capabilities, wasm>>

\* pending_message_count(client_id)
RECURSIVE pending_message_count(_, _)
pending_message_count(queue, client_id) ==
    IF Len(queue) = 0 THEN 0
    ELSE (IF Head(queue).dest_client_id = client_id THEN 1 ELSE 0)
         + pending_message_count(Tail(queue), client_id)

(***************************************************************************)
(* Specifications                                                           *)
(***************************************************************************)
\* the scheduler with the full task table; the k-th spawn is of the k-th function
Next ==
    \/ Spawn(EntryOf(num_tasks))
    \/ Arm
    \/ BootDispatch
    \/ Tick
    \/ SwitchToNext
    \/ BlockCurrent
    \/ \E t \in Slots : Unblock(t)

Spec == Init /\ [][Next]_vars

\* a few tasks that run and are preempted: the contexts and the frames
SpawnCtx(e) == num_tasks < MaxCtxTasks /\ Spawn(e)

NextCtx ==
    \/ \E k \in 0 .. 1 : SpawnCtx(EntryOf(k))
    \/ Arm
    \/ BootDispatch
    \/ Tick
    \/ \E r \in ProbeRegs, v \in RegVals : RunWriteReg(r, v)
    \/ RunPush
    \/ RunStep

SpecCtx == Init /\ [][NextCtx]_vars

\* kernel_main from its entry: the initialisation calls, the three spawns of demo
\* mode, the IRQ unmask and the jump to task 0, with timer interrupts from the
\* unmask on
SpawnBoot ==
    /\ kmain.pc > Len(KMainSteps)
    /\ num_tasks < KMAIN_TASKS
    /\ Spawn(EntryOf(num_tasks))

ArmBoot == num_tasks = KMAIN_TASKS /\ Arm

NextBoot ==
    \/ KMainStep
    \/ SpawnBoot
    \/ ArmBoot
    \/ BootDispatch
    \/ Tick
    \/ RunPush
    \/ RunStep

SpecBoot == InitBoot /\ [][NextBoot]_vars

\* a few tasks, timer-driven and cooperative switches, and the switch counter's
\* reset and read
NextCount ==
    \/ SpawnCtx(EntryOf(num_tasks))
    \/ Arm
    \/ BootDispatch
    \/ Tick
    \/ SwitchToNext
    \/ ResetSwitchCounter
    \/ GetSwitchCount

SpecCount == Init /\ [][NextCount]_vars

\* IPC with two tasks and two capabilities, a few sends and receives
SendFew(t, c, l) == ipc.tag < MaxSends /\ SendMessage(t, c, l)

NextIpc ==
    \/ IpcInit
    \/ \E c \in Caps : CreateEndpoint(c)
    \/ \E t \in IpcTasks, c \in Caps, l \in DataLens : SendFew(t, c, l)
    \/ \E t \in IpcTasks, c \in Caps : TryReceive(t, c)
    \/ \E t \in IpcTasks, c \in Caps : RecvTry(t, c)
    \/ \E t \in IpcTasks : RecvRegister(t)
    \/ \E t \in IpcTasks : RecvBlock(t)

SpecIpc == Init /\ [][NextIpc]_vars

\* one endpoint filled to its capacity by one sender
SendFill == ipc.tag < MaxFill /\ SendMessage(1, 1, MAX_MESSAGE_SIZE)

CreateOne == Len(registry.endpoints) = 0 /\ CreateEndpoint(1)

NextFill ==
    \/ IpcInit
    \/ CreateOne
    \/ SendFill
    \/ RecvTry(2, 1)
    \/ RecvRegister(2)
    \/ RecvBlock(2)

SpecFill == Init /\ [][NextFill]_vars

\* guests of two instances calling the imports with in-bounds, out-of-bounds and
\* negative arguments, in a build with and in one without overflow checks
FewCalls == wasm.calls < MaxHostCalls

NextWasm ==
    \/ FewCalls /\ \E m \in Instances, p \in PtrArgs, l \in LenArgs, checks \in BOOLEAN :
           HostSysPrint(m, p, l, checks)
    \/ FewCalls /\ \E m \in Instances, c \in ClientIds, p \in PtrArgs, l \in LenArgs,
                      checks \in BOOLEAN :
           HostSysMqttSubscribe(m, c, p, l, checks)
    \/ FewCalls /\ \E m \in Instances, tp \in PtrArgs, tl \in LenArgs, p \in PtrArgs,
                      l \in LenArgs, checks \in BOOLEAN :
           HostSysMqttPublish(m, tp, tl, p, l, checks)
    \/ FewCalls /\ \E m \in Instances, d \in ClientIds, p \in PtrArgs, l \in LenArgs,
                      checks \in BOOLEAN :
           HostSysIpcSend(m, d, p, l, checks)
    \/ \E m \in Instances, c \in GrantCaps : GrantCapability(m, c)
    \/ \E m \in Instances : CapabilityCount(m)

SpecWasm == Init /\ [][NextWasm]_vars

\* publish/subscribe and delivery: guests subscribe clients and publish payloads
\* of 8 and of 65536 bytes (and one that runs past the memory), and the kernel
\* delivers to a subscriber whose subscriber_receive succeeds or fails
PubPairs == {<<0, 8>>, <<0, MemLen>>, <<8, MemLen>>}

FewPubSubCalls == wasm.calls < MaxPubSubCalls

NextPubSub ==
    \/ FewPubSubCalls /\ \E m \in Instances, c \in ClientIds, checks \in BOOLEAN :
           HostSysMqttSubscribe(m, c, 0, 8, checks)
    \/ FewPubSubCalls /\ \E m \in Instances, pl \in PubPairs, checks \in BOOLEAN :
           HostSysMqttPublish(m, 0, 8, pl[1], pl[2], checks)
    \/ delivery.calls < MaxDeliveries /\ \E m \in Instances, c \in ClientIds :
           DeliverBegin(m, c)
    \/ DeliverPop
    \/ \E ok \in BOOLEAN : DeliverResult(ok)

SpecPubSub == Init /\ [][NextPubSub]_vars

\* the rounds of demo_04_mqtt: one client subscribes, then each publish of a
\* non-empty in-bounds payload is followed by a deliver_pending_messages for
\* that client, whose subscriber_receive succeeds or fails
Publishes == wasm.calls - Len(MQTT_SUBSCRIBERS)

SubscribeOnce ==
    /\ Len(MQTT_SUBSCRIBERS) = 0
    /\ \E m \in Instances, c \in ClientIds, checks \in BOOLEAN :
           HostSysMqttSubscribe(m, c, 0, 8, checks)

PublishRound ==
    /\ Len(MQTT_SUBSCRIBERS) = 1
    /\ delivery.pc = "idle"
    /\ delivery.calls = Publishes
    /\ Publishes < MaxRounds
    /\ \E m \in Instances, l \in {8, MemLen}, checks \in BOOLEAN :
           HostSysMqttPublish(m, 0, 8, 0, l, checks)

DeliverRound ==
    /\ Len(MQTT_SUBSCRIBERS) = 1
    /\ delivery.calls < Publishes
    /\ \E m \in Instances : DeliverBegin(m, MQTT_SUBSCRIBERS[1])

NextRound ==
    \/ SubscribeOnce
    \/ PublishRound
    \/ DeliverRound
    \/ DeliverPop
    \/ \E ok \in BOOLEAN : DeliverResult(ok)

SpecRound == Init /\ [][NextRound]_vars

(***************************************************************************)
(* Properties                                                               *)
(***************************************************************************)
Spawned == {i \in Slots : i < num_tasks}

RunningTasks == {i \in Slots : tasks[i].state = "Running"}

\* the step is a switch: the timer-driven one or switch_to_next (alone or as
\* the yield of block_current)
SwitchStep == ret'.op \in {"tick", "switch_to_next", "block_current"}

\* C1: in every reachable state at most one task has state Running
C1_AtMostOneRunning == Cardinality(RunningTasks) <= 1

\* both switch paths have acted, the last one a timer-driven switch away from
\* another task, and there is a Running task
C1_Witness ==
    /\ ret.op = "tick"
    /\ hist.yields > 0
    /\ num_tasks >= 3
    /\ ret.prev # current_task
    /\ RunningTasks = {current_task}

\* C2: no switch changes the state of a Blocked task: a task that is Blocked
\* before schedule-driven operations is Blocked after them, the outgoing task of
\* a timer-driven switch included
C2_BlockedStaysBlocked ==
    [][\A i \in Spawned :
         (SwitchStep /\ ret'.op # "block_current" /\ tasks[i].state = "Blocked")
             => tasks'[i].state = "Blocked"]_vars

\* the first index after old, in cyclic order, whose task is Ready
FirstReadyAfter(ts, n, old) ==
    LET k == CHOOSE k \in 1 .. n :
                 /\ ts[(old + k) % n].state = "Ready"
                 /\ \A j \in 1 .. (k - 1) : ts[(old + j) % n].state # "Ready"
    IN  (old + k) % n

OtherReady(ts, n, cur) == \E i \in 0 .. (n - 1) : i # cur /\ ts[i].state = "Ready"

\* C3: when a task other than the current one is Ready, a switch makes the first
\* Ready task after the old current one, in cyclic order, the current one; the
\* task it selects was Ready, never Blocked
C3_Rotational ==
    [][(SwitchStep /\ num_tasks > 1 /\ OtherReady(tasks, num_tasks, current_task))
          => /\ current_task' = FirstReadyAfter(tasks, num_tasks, current_task)
             /\ tasks[current_task'].state = "Ready"
             /\ current_task' # current_task]_vars

\* a timer-driven switch has skipped a Blocked task
C3_Witness ==
    /\ ret.op = "tick"
    /\ num_tasks >= 3
    /\ current_task = (ret.prev + 2) % num_tasks
    /\ tasks[(ret.prev + 1) % num_tasks].state = "Blocked"

\* C4: when no task other than the current one is Ready, a switch leaves
\* current_task unchanged and the current task goes on where it was
C4_CurrentRemains ==
    [][(SwitchStep /\ ~OtherReady(tasks, num_tasks, current_task))
          => /\ current_task' = current_task
             /\ (num_tasks > 0 => cpu'.pc = cpu.pc)]_vars

\* a timer-driven switch has come while every other task is Blocked
C4_Witness ==
    /\ ret.op = "tick"
    /\ num_tasks >= 3
    /\ ret.prev = current_task
    /\ \A i \in Spawned : i # current_task => tasks[i].state = "Blocked"

\* C5: while no task is Blocked, no task goes without a dispatch for num_tasks
\* consecutive timer-driven switches
C5_Fairness == \A i \in Spawned : hist.wait[i] < num_tasks

\* three tasks, and the last three timer-driven switches dispatched one each
C5_Witness ==
    /\ ret.op = "tick"
    /\ num_tasks = 3
    /\ {hist.wait[i] : i \in Spawned} = {0, 1, 2}

\* C6: spawn returns None exactly when 8 tasks are spawned and then changes
\* nothing; num_tasks never exceeds 8
C6_SpawnFailsWhenFull ==
    /\ [](num_tasks <= MAX_TASKS)
    /\ [][ret'.op = "spawn" =>
             /\ (ret'.val = None) <=> (num_tasks = MAX_TASKS)
             /\ (ret'.val = None) => UNCHANGED <<num_tasks, current_task, tasks>>]_vars

\* spawn has returned None on a full table
C6_Witness == ret.op = "spawn" /\ ret.val = None /\ num_tasks = MAX_TASKS

\* C7: a successful spawn with k tasks spawned returns k, stores id k and state
\* Ready at index k and makes num_tasks k + 1; nothing else changes num_tasks,
\* and no step changes the id of a spawned task
C7_DenseIds ==
    /\ [](\A i \in Spawned : tasks[i].id = i)
    /\ [][/\ (ret'.op = "spawn" /\ ret'.val # None)
              => /\ ret'.val = num_tasks
                 /\ num_tasks' = num_tasks + 1
                 /\ tasks'[num_tasks].id = num_tasks
                 /\ tasks'[num_tasks].state = "Ready"
          /\ ~(ret'.op = "spawn" /\ ret'.val # None) => num_tasks' = num_tasks
          /\ \A i \in Spawned : tasks'[i].id = tasks[i].id]_vars

\* the third spawn has returned 2
C7_Witness ==
    /\ ret.op = "spawn"
    /\ ret.val = 2
    /\ num_tasks = 3
    /\ tasks[2].id = 2
    /\ tasks[2].state = "Ready"

\* C8: spawn leaves the new task's context with PC = entry function, SP = top of
\* its own stack, PSTATE = 0b00101 and x0..x30 = 0, and the frame built when a
\* timer-driven switch dispatches a task for the first time has ELR_EL1 = its
\* entry function, SPSR_EL1 = 0b00101 and x0..x30 = 0
C8_FreshContextAndFirstFrame ==
    /\ (ret.op = "spawn" /\ ret.val # None)
         => tasks[ret.val].context =
              [x |-> ZeroRegs,
               sp |-> TASKS_BASE + ret.val * TASK_SIZE + FRAME_SIZE + TASK_STACK_SIZE,
               pc |-> hist.entry[ret.val],
               pstate |-> 5]
    /\ (ret.op = "tick" /\ hist.first /\ ret.val < num_tasks)
         => /\ next_frame.elr_el1 = hist.entry[ret.val]
            /\ next_frame.spsr_el1 = 5
            /\ next_frame.x = ZeroRegs

\* C9: the frame built for a task that a timer-driven switch preempted has
\* x0..x30, ELR_EL1 and SPSR_EL1 equal to those of the frame it was preempted with
C9_RegisterRoundTrip ==
    (ret.op = "tick" /\ hist.resumed.valid)
        => /\ next_frame.x = hist.resumed.x
           /\ next_frame.elr_el1 = hist.resumed.elr_el1
           /\ next_frame.spsr_el1 = hist.resumed.spsr_el1

\* a task preempted with x29 = 1 and x30 = 0 is dispatched again after the two
\* other tasks had the CPU
C9_Witness ==
    /\ ret.op = "tick"
    /\ num_tasks = 3
    /\ ret.prev # ret.val
    /\ hist.resumed.valid
    /\ hist.resumed.task
    /\ hist.resumed.x[29] = 1
    /\ hist.resumed.x[30] = 0
    /\ hist.resumed.elr_el1 # hist.entry[ret.val]

\* C10: a task preempted by a timer-driven switch while its stack pointer was S
\* has stack pointer S when it is next dispatched
C10_StackPointerRoundTrip ==
    (ret.op = "tick" /\ hist.resumed.valid /\ hist.resumed.task)
        => cpu.sp = hist.resumed.sp

Resolves(endpoints, cap_id, k) ==
    /\ k \in 1 .. Len(endpoints)
    /\ endpoints[k].id = cap_id
    /\ \A j \in 1 .. (k - 1) : endpoints[j].id # cap_id

IsSend == ret'.op = "send_message" /\ ipc'.tag # ipc.tag

\* C12: no endpoint queue ever holds more than 16 messages; a send_message to an
\* endpoint that holds 16 returns QueueFull and leaves every endpoint's queue and
\* wait set and the set of Blocked tasks unchanged
C12_QueueBound ==
    [][/\ \A k \in 1 .. Len(registry'.endpoints) :
              Len(registry'.endpoints[k].messages) <= 16
       /\ \A k \in 1 .. Len(registry.endpoints) :
              (/\ IsSend
               /\ ret'.msg.data.len <= 4096
               /\ Resolves(registry.endpoints, ret'.cap, k)
               /\ Len(registry.endpoints[k].messages) = 16)
              => (/\ ret'.val = "QueueFull"
                  /\ registry' = registry
                  /\ blocked_tasks' = blocked_tasks)]_vars

\* a send is refused with QueueFull while a Blocked task is in the wait set of
\* the endpoint, which holds 16 messages
C12_Witness ==
    /\ ret.op = "send_message"
    /\ ret.val = "QueueFull"
    /\ Len(registry.endpoints[1].messages) = 16
    /\ registry.endpoints[1].waiting_tasks = <<2>>
    /\ 2 \in blocked_tasks

\* C13: send_message with a payload longer than 4096 bytes returns
\* MessageTooLarge and leaves the registry and the Blocked tasks unchanged, whether
\* or not the capability resolves; a payload of exactly 4096 bytes sent to an
\* endpoint that is not full is accepted; every queued message has at most 4096 bytes
C13_MessageSize ==
    [][/\ (IsSend /\ ret'.msg.data.len > 4096)
            => (/\ ret'.val = "MessageTooLarge"
                /\ registry' = registry
                /\ blocked_tasks' = blocked_tasks)
       /\ \A k \in 1 .. Len(registry.endpoints) :
              (/\ IsSend
               /\ ret'.msg.data.len = 4096
               /\ Resolves(registry.endpoints, ret'.cap, k)
               /\ Len(registry.endpoints[k].messages) < 16)
              => (/\ ret'.val = "Ok"
                  /\ registry'.endpoints[k].messages =
                        Append(registry.endpoints[k].messages, ret'.msg))
       /\ \A k \in 1 .. Len(registry'.endpoints) :
              \A n \in 1 .. Len(registry'.endpoints[k].messages) :
                  registry'.endpoints[k].messages[n].data.len <= 4096]_vars

\* a 4097-byte send to a capability that does not resolve returns MessageTooLarge
\* while an endpoint holds a 4096-byte message
C13_Witness ==
    /\ ret.op = "send_message"
    /\ ret.val = "MessageTooLarge"
    /\ ret.msg.data.len = 4097
    /\ \A k \in 1 .. Len(registry.endpoints) : registry.endpoints[k].id # ret.cap
    /\ \E k \in 1 .. Len(registry.endpoints) :
           /\ Len(registry.endpoints[k].messages) > 0
           /\ registry.endpoints[k].messages[1].data.len = 4096

\* the capability matches no created endpoint, or the registry was never initialised
Unresolved(reg, cap_id) ==
    ~reg.some \/ \A k \in 1 .. Len(reg.endpoints) : reg.endpoints[k].id # cap_id

IsTryReceive == ret'.op = "try_receive_message" /\ ipc'.recvs # ipc.recvs

\* a step of receive_message_blocking up to its block_current
IsBlockingReceive ==
    /\ ret'.op \in {"receive_message_blocking", "receive_retry", "receive_register"}
    /\ ipc'.recvs # ipc.recvs \/ rx' # rx

\* C14: with a capability that matches no created endpoint, or with the registry
\* never initialised, send_message (of a payload that passes the size check),
\* try_receive_message and receive_message_blocking return EndpointNotFound and
\* leave the registry unchanged; receive_message_blocking returns without
\* registering or blocking its caller
C14_EndpointNotFound ==
    [][/\ (IsSend /\ ret'.msg.data.len <= 4096 /\ Unresolved(registry, ret'.cap))
            => (/\ ret'.val = "EndpointNotFound"
                /\ registry' = registry
                /\ blocked_tasks' = blocked_tasks)
       /\ (IsTryReceive /\ Unresolved(registry, ret'.cap))
            => (ret'.val = "EndpointNotFound" /\ registry' = registry)
       /\ (IsBlockingReceive /\ Unresolved(registry, ret'.cap))
            => (/\ ret'.op = "receive_message_blocking"
                /\ ret'.val = "EndpointNotFound"
                /\ registry' = registry
                /\ rx'[ret'.prev] = RxIdle
                /\ blocked_tasks' = blocked_tasks
                /\ ret'.prev \notin blocked_tasks')]_vars

\* receive_message_blocking returns EndpointNotFound for a capability that was
\* never created, while the registry holds another endpoint with a queued message
C14_Witness ==
    /\ ret.op = "receive_message_blocking"
    /\ ret.val = "EndpointNotFound"
    /\ registry.some
    /\ Unresolved(registry, ret.cap)
    /\ \E k \in 1 .. Len(registry.endpoints) : Len(registry.endpoints[k].messages) > 0
    /\ rx[ret.prev] = RxIdle
    /\ ret.prev \notin blocked_tasks

\* C15: a send_message that returns Ok has appended its message at the tail of
\* the endpoint's queue, has left the endpoint's wait set empty, and every task
\* that was in the wait set is not Blocked afterwards; no other task is woken
C15_SendWakesWaiters ==
    [][\A k \in 1 .. Len(registry.endpoints) :
          (IsSend /\ ret'.val = "Ok" /\ Resolves(registry.endpoints, ret'.cap, k))
          => LET before == registry.endpoints[k]
                 after == registry'.endpoints[k]
                 waiters == {before.waiting_tasks[n] : n \in 1 .. Len(before.waiting_tasks)}
             IN  /\ after.messages = before.messages \o <<ret'.msg>>
                 /\ after.waiting_tasks = <<>>
                 /\ \A t \in waiters : t \notin blocked_tasks'
                 /\ \A t \in IpcTasks \ waiters :
                        (t \in blocked_tasks') = (t \in blocked_tasks)]_vars

\* task 3's send returned Ok and woke tasks 1 and 2, both of which were Blocked in
\* the wait set of the endpoint
C15_Witness ==
    /\ ret.op = "send_message"
    /\ ret.val = "Ok"
    /\ ret.prev = 3
    /\ rx[1].woken /\ rx[1].pc = "try" /\ rx[1].cap = ret.cap
    /\ rx[2].woken /\ rx[2].pc = "try" /\ rx[2].cap = ret.cap
    /\ blocked_tasks = {}
    /\ \E k \in 1 .. Len(registry.endpoints) :
           /\ Resolves(registry.endpoints, ret.cap, k)
           /\ registry.endpoints[k].waiting_tasks = <<>>
           /\ registry.endpoints[k].messages = <<ret.msg>>

\* the queue a capability resolves to, empty when it resolves to none
QueueOf(cap_id) ==
    IF \E k \in 1 .. Len(registry.endpoints) : Resolves(registry.endpoints, cap_id, k)
    THEN registry.endpoints[CHOOSE k \in 1 .. Len(registry.endpoints) :
                               Resolves(registry.endpoints, cap_id, k)].messages
    ELSE <<>>

\* C16: on every endpoint the messages returned so far by try_receive_message and
\* receive_message_blocking, followed by the messages still queued, are exactly the
\* messages successfully sent to it, in send order: the received sequence is a
\* prefix of the sent one, with nothing lost, duplicated or reordered
C16_Fifo == \A c \in Caps : ipc.got[c] \o QueueOf(c) = ipc.sent[c]

\* the two messages sent to one endpoint have been received in send order, the
\* second one by try_receive_message
C16_Witness ==
    /\ ret.op = "try_receive_message"
    /\ ret.val = "Some"
    /\ Len(ipc.got[ret.cap]) = 2
    /\ ipc.got[ret.cap][1].data.tag = 1
    /\ ipc.got[ret.cap][2].data.tag = 2
    /\ ipc.got[ret.cap][2] = ret.msg
    /\ ipc.sent[ret.cap] = ipc.got[ret.cap]

\* C17: receive_message_blocking returns Ok(m) only in the step in which it took
\* m from the head of the queue, and m was returned by no receive before; a
\* receiver that was woken and finds the queue empty does not return but goes on
\* to register in the wait set and then to block again
C17_BlockingReceive ==
    [][/\ (ret'.op = "receive_message_blocking" /\ ret'.val = "Ok" /\ ipc'.got # ipc.got)
            => (/\ QueueOf(ret'.cap) # <<>>
                /\ ret'.msg = Head(QueueOf(ret'.cap))
                /\ registry' = [registry EXCEPT
                      !.endpoints[CHOOSE k \in 1 .. Len(registry.endpoints) :
                                    Resolves(registry.endpoints, ret'.cap, k)].messages = Tail(@)]
                /\ \A c \in Caps : \A n \in 1 .. Len(ipc.got[c]) : ipc.got[c][n] # ret'.msg)
       /\ \A t \in IpcTasks :
            /\ (/\ rx[t].pc = "try" /\ rx[t].woken /\ rx'[t] # rx[t]
                /\ QueueOf(rx[t].cap) = <<>>)
                 => (/\ rx'[t].pc = "register"
                     /\ rx'[t].cap = rx[t].cap
                     /\ ret'.op # "receive_message_blocking")
            /\ (rx[t].pc = "register" /\ rx'[t] # rx[t])
                 => (/\ rx'[t].pc = "block"
                     /\ \E k \in 1 .. Len(registry'.endpoints) :
                          /\ Resolves(registry'.endpoints, rx[t].cap, k)
                          /\ \E n \in 1 .. Len(registry'.endpoints[k].waiting_tasks) :
                                 registry'.endpoints[k].waiting_tasks[n] = t)
            /\ (rx[t].pc = "block" /\ rx'[t] # rx[t])
                 => (t \in blocked_tasks' /\ rx'[t].pc = "try")]_vars

\* two receivers were woken by one send; one of them returned the message, the
\* other found the queue empty, registered again and is Blocked for the second time
C17_Witness ==
    \E t \in IpcTasks, u \in IpcTasks :
        /\ t # u
        /\ t \in blocked_tasks
        /\ rx[t].pc = "try" /\ ~rx[t].woken /\ rx[t].rounds = 2
        /\ rx[u] = RxIdle
        /\ Len(ipc.sent[rx[t].cap]) = 1
        /\ ipc.got[rx[t].cap] = ipc.sent[rx[t].cap]
        /\ ipc.got[rx[t].cap][1].sender \notin {t, u}
        /\ ret.op = "receive_block"
        /\ ret.prev = t

(***************************************************************************)
(* Sandbox host properties.                                                 *)
(***************************************************************************)
\* the step is a call of the named import by a guest
IsImport(op) == ret'.op = op /\ wasm'.calls # wasm.calls

\* C18: a sys_ipc_send from an instance whose capability list is empty returns
\* -1 whatever its arguments, leaves the delivery queue exactly as it was and
\* does not abort the kernel.
C18_NoAmbientAuthority ==
    [][(IsImport("sys_ipc_send") /\ Len(capabilities[ret'.prev]) = 0)
         => /\ ~wasm'.panicked
            /\ ret'.val = -1
            /\ IPC_MESSAGE_QUEUE' = IPC_MESSAGE_QUEUE]_vars

\* C18 witness: an instance without a capability was refused a send with a
\* negative pointer while the delivery queue held a message of another instance.
C18_Witness ==
    /\ ret.op = "sys_ipc_send"
    /\ ~wasm.panicked
    /\ Len(capabilities[ret.prev]) = 0
    /\ ret.args[2] < 0
    /\ ret.val = -1
    /\ Len(IPC_MESSAGE_QUEUE) = 1

\* the pair lies inside the guest memory
InBounds(ptr, len) == ptr >= 0 /\ len >= 0 /\ ptr + len <= MemLen

\* C19: once grant_capability has been called on an instance, an in-bounds
\* sys_ipc_send(dest, ptr, len) from it returns 0 and appends exactly one message,
\* for dest and holding the len guest bytes at ptr, to the tail of the delivery
\* queue; capability_count returns the number of grants made.
C19_GrantObserved ==
    [][/\ (IsImport("sys_ipc_send") /\ wasm.grants[ret'.prev] >= 1
             /\ InBounds(ret'.args[2], ret'.args[3]))
          => /\ ~wasm'.panicked
             /\ ret'.val = 0
             /\ IPC_MESSAGE_QUEUE' =
                    Append(IPC_MESSAGE_QUEUE,
                           [dest_client_id |-> ret'.args[1],
                            message |-> Bytes(ret'.prev, ret'.args[2], ret'.args[3])])
       /\ ret'.op = "capability_count" => ret'.val = wasm.grants[ret'.prev]]_vars

\* C19 witness: an instance granted two capabilities sent to client 2 and the
\* message is the second of the delivery queue.
C19_Witness ==
    /\ ret.op = "sys_ipc_send"
    /\ ~wasm.panicked
    /\ wasm.grants[ret.prev] = 2
    /\ ret.args[1] = 2
    /\ ret.val = 0
    /\ Len(IPC_MESSAGE_QUEUE) = 2
    /\ IPC_MESSAGE_QUEUE[2].dest_client_id = 2

\* ptr + len, as the unsigned values the host converts the arguments to, exceeds
\* the guest memory length
ExceedsMemory(ptr, len) ==
    \/ AsUsize(ptr).high
    \/ AsUsize(len).high
    \/ AsUsize(ptr).low + AsUsize(len).low > MemLen

\* the step is a call of one of the three imports that return a status, with a
\* pointer and length pair that exceeds the guest memory
OutOfBoundsCall ==
    \/ IsImport("sys_mqtt_subscribe") /\ ExceedsMemory(ret'.args[2], ret'.args[3])
    \/ IsImport("sys_ipc_send") /\ Len(capabilities[ret'.prev]) > 0
         /\ ExceedsMemory(ret'.args[2], ret'.args[3])
    \/ IsImport("sys_mqtt_publish")
         /\ (ExceedsMemory(ret'.args[1], ret'.args[2]) \/ ExceedsMemory(ret'.args[3], ret'.args[4]))

\* sys_print logged guest bytes in the step
PrintsGuestBytes ==
    \E k \in Len(serial) + 1 .. Len(serial') : serial'[k].guest

\* C20: an import called with a pair whose ptr+len exceeds the guest memory
\* length returns a negative value and modifies neither the subscriber set nor the
\* delivery queue; sys_print in that case logs no guest bytes and changes no host
\* state.
C20_BoundsRejected ==
    [][/\ OutOfBoundsCall
          => /\ ~wasm'.panicked
             /\ ret'.val < 0
             /\ MQTT_SUBSCRIBERS' = MQTT_SUBSCRIBERS
             /\ IPC_MESSAGE_QUEUE' = IPC_MESSAGE_QUEUE
       /\ (IsImport("sys_print") /\ ExceedsMemory(ret'.args[1], ret'.args[2]))
          => /\ ~wasm'.panicked
             /\ ~PrintsGuestBytes
             /\ MQTT_SUBSCRIBERS' = MQTT_SUBSCRIBERS
             /\ IPC_MESSAGE_QUEUE' = IPC_MESSAGE_QUEUE]_vars

\* the same for the pairs whose converted sum does not overflow 64 bits: those a
\* guest forms from a non-negative pointer and a non-negative length
NonNegativeBoundsRejected ==
    [][/\ (OutOfBoundsCall /\ \A k \in 1 .. Len(ret'.args) : ret'.args[k] >= 0)
          => /\ ~wasm'.panicked
             /\ ret'.val < 0
             /\ MQTT_SUBSCRIBERS' = MQTT_SUBSCRIBERS
             /\ IPC_MESSAGE_QUEUE' = IPC_MESSAGE_QUEUE
       /\ (IsImport("sys_print") /\ ExceedsMemory(ret'.args[1], ret'.args[2])
             /\ \A k \in 1 .. Len(ret'.args) : ret'.args[k] >= 0)
          => /\ ~wasm'.panicked
             /\ ~PrintsGuestBytes
             /\ MQTT_SUBSCRIBERS' = MQTT_SUBSCRIBERS
             /\ IPC_MESSAGE_QUEUE' = IPC_MESSAGE_QUEUE]_vars

\* a pointer or length argument of the call is negative
NegativeArg(args) == \E k \in 1 .. Len(args) : args[k] < 0

\* the step is a call of an import with a negative pointer or length
NegativeCall ==
    \/ IsImport("sys_mqtt_subscribe") /\ NegativeArg(<<ret'.args[2], ret'.args[3]>>)
    \/ IsImport("sys_ipc_send") /\ NegativeArg(<<ret'.args[2], ret'.args[3]>>)
    \/ IsImport("sys_mqtt_publish") /\ NegativeArg(ret'.args)

\* C21: when a guest passes a negative i32 as pointer or length, the import
\* returns the negative sentinel, reads no guest memory, changes neither the
\* subscriber registry nor the delivery queue and does not panic; sys_print with
\* such arguments prints no guest bytes and does not panic.
C21_NegativeArgsRejected ==
    [][/\ NegativeCall
          => /\ ~wasm'.panicked
             /\ ret'.val < 0
             /\ ~PrintsGuestBytes
             /\ MQTT_SUBSCRIBERS' = MQTT_SUBSCRIBERS
             /\ IPC_MESSAGE_QUEUE' = IPC_MESSAGE_QUEUE
       /\ (IsImport("sys_print") /\ NegativeArg(ret'.args))
          => /\ ~wasm'.panicked
             /\ ~PrintsGuestBytes
             /\ MQTT_SUBSCRIBERS' = MQTT_SUBSCRIBERS
             /\ IPC_MESSAGE_QUEUE' = IPC_MESSAGE_QUEUE]_vars

(***************************************************************************)
(* Publish/subscribe and delivery properties.                               *)
(***************************************************************************)
\* the messages for a client among those of a queue, in queue order
RECURSIVE MessagesFor(_, _)
MessagesFor(queue, c) ==
    IF Len(queue) = 0 THEN <<>>
    ELSE (IF Head(queue).dest_client_id = c THEN <<Head(queue)>> ELSE <<>>)
         \o MessagesFor(Tail(queue), c)

\* the step is an in-bounds sys_mqtt_publish
IsPublish ==
    /\ IsImport("sys_mqtt_publish")
    /\ InBounds(ret'.args[1], ret'.args[2])
    /\ InBounds(ret'.args[3], ret'.args[4])

\* C22: an in-bounds publish returns the number of subscribers and appends to
\* the delivery queue exactly one message with the published payload for each
\* client subscribed at that moment and none for any other client; a subscribe
\* leaves the queue as it is, so a later subscriber gets no earlier publish.
C22_PublishSnapshot ==
    [][/\ IsPublish
          => /\ ~wasm'.panicked
             /\ ret'.val = Len(MQTT_SUBSCRIBERS)
             /\ Len(IPC_MESSAGE_QUEUE') = Len(IPC_MESSAGE_QUEUE) + Len(MQTT_SUBSCRIBERS)
             /\ SubSeq(IPC_MESSAGE_QUEUE', 1, Len(IPC_MESSAGE_QUEUE)) = IPC_MESSAGE_QUEUE
             /\ \A c \in ClientIds :
                    Len(MessagesFor(IPC_MESSAGE_QUEUE', c))
                      = Len(MessagesFor(IPC_MESSAGE_QUEUE, c))
                        + (IF c \in SeqRange(MQTT_SUBSCRIBERS) THEN 1 ELSE 0)
             /\ \A k \in (Len(IPC_MESSAGE_QUEUE) + 1) .. Len(IPC_MESSAGE_QUEUE') :
                    IPC_MESSAGE_QUEUE'[k].message
                      = Bytes(ret'.prev, ret'.args[3], ret'.args[4])
       /\ IsImport("sys_mqtt_subscribe") => IPC_MESSAGE_QUEUE' = IPC_MESSAGE_QUEUE]_vars

\* C22 witness: a publish reached two subscribers, of which the second had
\* subscribed after an earlier publish: it has one message queued, the first two.
C22_Witness ==
    /\ ret.op = "sys_mqtt_publish"
    /\ ret.val = 2
    /\ Len(MQTT_SUBSCRIBERS) = 2
    /\ Len(MessagesFor(IPC_MESSAGE_QUEUE, MQTT_SUBSCRIBERS[1])) = 2
    /\ Len(MessagesFor(IPC_MESSAGE_QUEUE, MQTT_SUBSCRIBERS[2])) = 1

\* how often a client is in the registry
Occurrences(subscribers, c) ==
    Cardinality({k \in 1 .. Len(subscribers) : subscribers[k] = c})

\* C23: an in-bounds subscribe returns 0 and leaves the client in the registry
\* exactly once; subscribing a client that is already there changes nothing; no
\* client is in the registry twice, and no step takes a client out of it.
C23_SubscriberSet ==
    [][/\ (IsImport("sys_mqtt_subscribe") /\ InBounds(ret'.args[2], ret'.args[3]))
          => /\ ~wasm'.panicked
             /\ ret'.val = 0
             /\ Occurrences(MQTT_SUBSCRIBERS', ret'.args[1]) = 1
             /\ ret'.args[1] \in SeqRange(MQTT_SUBSCRIBERS)
                  => MQTT_SUBSCRIBERS' = MQTT_SUBSCRIBERS
       /\ \A c \in ClientIds : Occurrences(MQTT_SUBSCRIBERS', c) <= 1
       /\ SeqRange(MQTT_SUBSCRIBERS) \subseteq SeqRange(MQTT_SUBSCRIBERS')]_vars

\* C23 witness: a client was subscribed a second time, after a publish had
\* reached it, and is still the only entry of the registry.
C23_Witness ==
    /\ ret.op = "sys_mqtt_subscribe"
    /\ ret.val = 0
    /\ MQTT_SUBSCRIBERS = <<ret.args[1]>>
    /\ Len(IPC_MESSAGE_QUEUE) >= 1

\* the step enters subscriber_receive
IsInvoke == ret'.op = "subscriber_receive" /\ delivery'.invoked # delivery.invoked

\* the smaller of two lengths
Min(a, b) == IF a < b THEN a ELSE b

C25_StopsOnFailure ==
    [][(delivery.pc = "pop" /\ delivery.failed)
         => /\ IPC_MESSAGE_QUEUE' = IPC_MESSAGE_QUEUE
            /\ ~IsInvoke]_vars

\* C26: a step of deliver_pending_messages(subscriber, c) passes to the guest
\* only a message whose dest_client_id is c, and leaves the messages for every
\* other client in the delivery queue, unchanged and in the same order.
C26_KeyedByDestination ==
    [][delivery.pc = "pop"
         => /\ \A c \in ClientIds \ {delivery.client_id} :
                   MessagesFor(IPC_MESSAGE_QUEUE', c) = MessagesFor(IPC_MESSAGE_QUEUE, c)
            /\ IsInvoke
                 => \E k \in 1 .. Len(IPC_MESSAGE_QUEUE) :
                        /\ IPC_MESSAGE_QUEUE[k].dest_client_id = delivery.client_id
                        /\ IPC_MESSAGE_QUEUE[k].message = delivery'.buffer.message
                        /\ IPC_MESSAGE_QUEUE' = remove(IPC_MESSAGE_QUEUE, k)]_vars

\* C26 witness: one publish reached clients 1 and 2 in that order; the delivery
\* for client 2 took its message from behind the one for client 1, which stays.
C26_Witness ==
    /\ delivery.pc = "invoke"
    /\ delivery.client_id = 2
    /\ delivery.invoked = 1
    /\ MQTT_SUBSCRIBERS = <<1, 2>>
    /\ wasm.calls = 3
    /\ Len(IPC_MESSAGE_QUEUE) = 1
    /\ IPC_MESSAGE_QUEUE[1].dest_client_id = 1

BootOrder ==
    <<"arch::init", "init_heap", "capability::init", "wasm_runtime::init", "ipc::init">>

InBootOrder(step) == \E k \in 1 .. Len(BootOrder) : BootOrder[k] = step

\* C28: when kernel_main jumps to task 0 it has made the calls of the boot order
\* - architecture, heap, capability table, sandbox host, IPC registry - once
\* each and in that order, has then spawned the tasks and has then unmasked IRQs.
C28_BootOrder ==
    [][(ret'.op = "boot" /\ ret.op # "boot")
         => /\ SelectSeq(kmain.log, InBootOrder) = BootOrder
            /\ num_tasks > 0
            /\ kpc = "armed"]_vars

\* C29: the task array, current_task and the task states are written only by
\* the IRQ handler or by code that runs with IRQs masked.
C29_WritesWithIrqsMasked ==
    [][(tasks' # tasks \/ current_task' # current_task \/ num_tasks' # num_tasks)
         => (ret'.op = "tick" \/ ~IrqUnmasked(cpu.pstate))]_vars

\* C30: the exception return kernel_main makes into task 0 loads the entry
\* function, the stack top and the PSTATE 0b00101 that spawn wrote, whatever
\* timer interrupts were taken between the IRQ unmask and the jump.
C30_FirstDispatchAtEntry ==
    [][(ret'.op = "boot" /\ num_tasks > 0)
         => /\ cpu'.pc = hist.entry[0]
            /\ cpu'.sp = StackTop(0)
            /\ cpu'.pstate = 5]_vars

(***************************************************************************)
(* Timer-driven switch: what it saves, what it builds, what it leaves.      *)
(***************************************************************************)
\* C31: after a timer-driven switch with a spawned outgoing task, the outgoing
\* context holds x0..x30, SP_EL0, ELR_EL1 and SPSR_EL1 of the exception frame
\* that was passed in (SP_EL0 in sp, ELR_EL1 in pc, SPSR_EL1 in pstate).
C31_OutgoingSavedFromFrame ==
    [][(ret'.op = "tick" /\ switch_counter' # switch_counter /\ current_task < num_tasks)
         => LET frame == ExceptionFrame(cpu)
                ctx == tasks'[current_task].context
            IN  /\ ctx.x = frame.x
                /\ ctx.pc = frame.elr_el1
                /\ ctx.pstate = frame.spsr_el1
                /\ ctx.sp = frame.sp_el0]_vars

\* C32: a timer-driven switch to a spawned task returns the address (saved SP
\* - 272); the frame there holds the incoming context - x0..x30, SP_EL0 = saved
\* SP, ELR_EL1 = saved PC, SPSR_EL1 = saved PSTATE - and its 272 bytes lie inside
\* the incoming task's own 16 KiB stack.
C32_IncomingFrame ==
    (ret.op = "tick" /\ ret.val < num_tasks)
        => LET ctx == tasks[ret.val].context
               base == TASKS_BASE + ret.val * TASK_SIZE + FRAME_SIZE
           IN  /\ next_frame.addr = ctx.sp - 272
               /\ next_frame.x = ctx.x
               /\ next_frame.sp_el0 = ctx.sp
               /\ next_frame.elr_el1 = ctx.pc
               /\ next_frame.spsr_el1 = ctx.pstate
               /\ base <= next_frame.addr
               /\ next_frame.addr + 272 <= base + 16384

\* C32 witness: the second of three tasks is dispatched again, with the registers
\* it was preempted with, after the other two had the CPU.
C32_Witness ==
    /\ ret.op = "tick"
    /\ num_tasks = 3
    /\ ret.val = 1
    /\ ret.prev = 0
    /\ hist.resumed.valid
    /\ next_frame.x[29] = 1

\* C33: the saved SP of every spawned task that is not Running lies within the
\* task's own stack range [stack base, stack base + 16 KiB].
C33_SavedSpInOwnStack ==
    \A i \in Slots :
        (i < num_tasks /\ tasks[i].state # "Running")
            => LET base == TASKS_BASE + i * TASK_SIZE + FRAME_SIZE
               IN  /\ base <= tasks[i].context.sp
                   /\ tasks[i].context.sp <= base + 16384

\* C33 witness: with the table full, a task that was preempted, and later gave
\* the CPU away itself, waits Ready or Blocked.
C33_Witness ==
    /\ num_tasks = MAX_TASKS
    /\ ret.op \in {"switch_to_next", "block_current"}
    /\ ret.prev # ret.val
    /\ tasks[ret.prev].state # "Running"
    /\ hist.switches >= 1

(***************************************************************************)
(* Blocking receive against concurrent sends.                               *)
(***************************************************************************)
\* the positions of the endpoints whose wait set holds task t
WaitSetsOf(t) ==
    {i \in 1 .. Len(registry.endpoints) : t \in SeqRange(registry.endpoints[i].waiting_tasks)}

\* C34: every task blocked by receive_message_blocking is in the wait set of
\* the endpoint it is receiving on and in no other, and no wait set holds the
\* same task twice.
C34_BlockedInOneWaitSet ==
    /\ \A t \in blocked_tasks :
          /\ WaitSetsOf(t) # {}
          /\ \A i \in WaitSetsOf(t) : i = get_endpoint_mut(registry.endpoints, rx[t].cap)
    /\ \A i \in 1 .. Len(registry.endpoints) :
          LET w == registry.endpoints[i].waiting_tasks
          IN  \A j, k \in 1 .. Len(w) : w[j] = w[k] => j = k

\* the queue of the endpoint task t is receiving on
ReceivingQueue(t) ==
    LET i == get_endpoint_mut(registry.endpoints, rx[t].cap)
    IN  IF i = 0 THEN <<>> ELSE registry.endpoints[i].messages

\* C36: under any interleaving of a receiver in receive_message_blocking with
\* senders on the same endpoint, the receiver is never Blocked while the
\* endpoint's queue holds a message.
C36_NoLostWakeup ==
    \A t \in blocked_tasks : Len(ReceivingQueue(t)) = 0

C37_QueuedPayloadAtMost4096 ==
    \A k \in 1 .. Len(IPC_MESSAGE_QUEUE) : IPC_MESSAGE_QUEUE[k].message.len <= 4096

\* C38: deliver_pending_messages terminates, also when the guest's
\* subscriber_receive itself calls sys_mqtt_publish or sys_ipc_send: while a call
\* runs, the number of queued messages for its client - what the loop has left
\* to do - never grows; and a call that returns without an invocation failure
\* leaves no message for the client in the queue.
C38_DeliveryTerminates ==
    [][/\ (delivery.pc # "idle" /\ delivery'.pc # "idle")
            => pending_message_count(IPC_MESSAGE_QUEUE', delivery.client_id)
                   <= pending_message_count(IPC_MESSAGE_QUEUE, delivery.client_id)
       /\ (ret'.op = "deliver_pending_messages" /\ delivery.pc = "pop" /\ ~delivery'.failed)
            => /\ pending_message_count(IPC_MESSAGE_QUEUE', delivery.client_id) = 0
               /\ ret'.val = delivery.delivered]_vars

(***************************************************************************)
(* What a timer-driven switch touches.                                      *)
(***************************************************************************)
\* C39: the scheduler only dispatches spawned tasks: current_task is below
\* num_tasks whenever a task is spawned, and scheduler_switch_task neither marks
\* Running nor builds a frame for a slot at or above num_tasks, also when no
\* task is spawned.
C39_OnlySpawnedDispatched ==
    /\ num_tasks > 0 => current_task < num_tasks
    /\ \A i \in Slots : i >= num_tasks => tasks[i].state # "Running"
    /\ ret.op = "tick" => ret.val < num_tasks

\* C40: a timer-driven switch changes only the saved context of the outgoing
\* task and the states of the outgoing and the incoming task: the context,
\* state and id of every other task, the id of the two, the context of an
\* incoming task that is not the outgoing one, and num_tasks stay as they were.
C40_SwitchFrame ==
    [][(ret'.op = "tick" /\ switch_counter' # switch_counter)
         => /\ num_tasks' = num_tasks
            /\ \A i \in Slots :
                  /\ tasks'[i].id = tasks[i].id
                  /\ i # ret'.prev => tasks'[i].context = tasks[i].context
                  /\ i \notin {ret'.prev, ret'.val} => tasks'[i].state = tasks[i].state]_vars

\* C40 witness: the third of three tasks is dispatched from the second while
\* the first waits with the context it was preempted with.
C40_Witness ==
    /\ ret.op = "tick"
    /\ num_tasks = 3
    /\ ret.prev = 1
    /\ ret.val = 2
    /\ hist.saved[0].valid
    /\ tasks[0].state = "Ready"
    /\ tasks[0].context.pc = hist.saved[0].elr_el1

====
